---------------------------- MODULE Spec2Model ----------------------------
(***************************************************************************)
(* A model of the eBay ranking core: the Azure OpenAI embedding service    *)
(* (initialisation, single embedding with retry, batch embedding), the     *)
(* preference scorer, the deal score and the fused ranking pipeline        *)
(* rankItemsWithAI.                                                        *)
(*                                                                         *)
(* Conventions.                                                            *)
(*  - A text is a sequence of character codes; code 0 is a whitespace      *)
(*    character, every code > 0 a non-whitespace character.                *)
(*  - Scores on the 0..100 scale are kept in hundredths (60.25 is 6025).   *)
(*    A reported final score is kept in ten-thousandths, so that the       *)
(*    unrounded mean of the fallback path is exact.                        *)
(*  - JavaScript null / undefined is NoEmb for an embedding and NullScore  *)
(*    for a number.                                                        *)
(*  - An async function is one action per segment between two awaits; a    *)
(*    call of another async function is a segment boundary as well.        *)
(*  - Arithmetic is exact: the rounding error of IEEE doubles is not       *)
(*    modelled, and the inputs are chosen so that every division is exact. *)
(***************************************************************************)
EXTENDS Integers, Sequences, FiniteSets, TLC

VARIABLES
    \* AzureOpenAIEmbeddingService (the process-wide singleton)
    env,            \* process.env: [endpoint, apiKey, production]
    initPc,         \* position of initializeClient: "new", "awaitToken", "done"
    client,         \* this.client !== null
    isConfigured,   \* this.isConfigured
    obs,            \* values isAvailable() returned to callers, in call order
    \* one generateEmbedding call chain (the call and its recursive retries)
    e_pc,           \* "idle", "call", "await", "sleep", "ret"
    e_text,         \* the text argument
    e_retry,        \* retryCount of the current invocation
    e_attempts,     \* remote embeddings.create calls issued by the chain
    e_delays,       \* the setTimeout delays (ms) waited so far, in order
    e_lastErr,      \* the error caught last
    e_result,       \* the value the chain resolved to
    \* one generateBatchEmbeddings call
    b_pc,           \* "idle", "call", "await", "pause", "ret"
    b_texts,        \* the texts argument
    b_i,            \* the loop variable i (0-based offset of the group)
    b_results,      \* the results array
    b_log,          \* one entry per group visited: what became of it
    \* one rankItemsWithAI call
    r_pc,           \* "idle", "start", "awaitQuery", "awaitBatch", "done"
    items,          \* the items argument
    prefs,          \* the preferences argument
    query,          \* the userQuery argument (<<>>: undefined or '')
    r_avail,        \* what isAvailable() returned at the check of step 2
    r_queryEmb,     \* calculateSemanticScores: queryEmbedding
    r_path,         \* "none", "main" (try block returned), "fallback"
    r_result,       \* the list the call resolved to
    r_passAt,       \* how many updates had been applied when the call scored the deals
    \* MLDealScoringService (the process-wide singleton)
    marketAverages, \* this.marketAverages: category -> average price (dollars)
    m_applied,      \* the updateMarketAverages arguments applied so far, in order
    \* synchronous calls of the scorers: EbayRankingEngine.rankItems and
    \* mlDealScoringService.scoreBatchDeals on (items, prefs)
    s_done,         \* which of the two calls have returned
    s_ranked,       \* what rankItems returned
    s_deals,        \* what scoreBatchDeals returned
    \* one call of AzureOpenAIEmbeddingService.calculateCosineSimilarity
    c_a,            \* embedding1
    c_b,            \* embedding2
    c_out,          \* what the call did: NoOutcome, a return value or an error
    \* one POST /api/search request and the EbayAPIClient singleton
    p_pc,           \* "idle", "json", "awaitToken", "awaitSearch", "awaitRank", "done"
    p_request,      \* the request body
    p_token,        \* the client holds an access token that has not expired
    p_failure,      \* what failed at the eBay API: "none", "auth", "rate", "other"
    p_fetched,      \* what searchItems resolved to
    p_ranked,       \* rankedItems
    p_response      \* the response sent: [status, body], or NoResponse

svcVars   == <<env, initPc, client, isConfigured, obs>>
embedVars == <<e_pc, e_text, e_retry, e_attempts, e_delays, e_lastErr, e_result>>
batchVars == <<b_pc, b_texts, b_i, b_results, b_log>>
rankVars  == <<r_pc, items, prefs, query, r_avail, r_queryEmb, r_path, r_result, r_passAt>>
dealVars  == <<marketAverages, m_applied>>
scoreVars == <<s_done, s_ranked, s_deals>>
cosVars   == <<c_a, c_b, c_out>>
searchVars == <<p_pc, p_request, p_token, p_failure, p_fetched, p_ranked, p_response>>
vars      == <<svcVars, embedVars, batchVars, rankVars, dealVars, scoreVars, cosVars, searchVars>>

---------------------------------------------------------------------------
(* Bounds of the model *)

MaxObs == 6           \* isAvailable() calls recorded per behaviour

---------------------------------------------------------------------------
(* Generic helpers *)

Range(s) == {s[k] : k \in 1..Len(s)}

Min(a, b) == IF a <= b THEN a ELSE b
Max(a, b) == IF a >= b THEN a ELSE b

RECURSIVE Pow2(_)
Pow2(n) == IF n = 0 THEN 1 ELSE 2 * Pow2(n - 1)

\* Array(n).fill(v)
Fill(n, v) == [k \in 1..n |-> v]

\* Array.prototype.sort with (a, b) => key(b) - key(a), keys[k] being the key
\* of list[k]: a stable sort, descending.  An element is placed behind the
\* elements with a larger key and behind the earlier elements with its own key.
SortDescendingBy(list, keys) ==
    LET n == Len(list)
        array == SubSeq(list, 1, n)
        key == SubSeq(keys, 1, n)
        Before(j, k) == key[j] > key[k] \/ (key[j] = key[k] /\ j < k)
        place == SubSeq([k \in 1..n |-> 1 + Cardinality({j \in 1..n : Before(j, k)})], 1, n)
    IN  [p \in 1..n |-> array[CHOOSE k \in 1..n : place[k] = p]]

---------------------------------------------------------------------------
(* Text preprocessing *)

TextCeiling == 6000
Space == 0

IsSpace(c) == c = Space

\* text.replace(/\s+/g, ' '): every run of whitespace becomes one space
RECURSIVE CollapseSpaces(_)
CollapseSpaces(t) ==
    IF Len(t) <= 1 THEN t
    ELSE IF IsSpace(t[1]) /\ IsSpace(t[2]) THEN CollapseSpaces(Tail(t))
    ELSE <<t[1]>> \o CollapseSpaces(Tail(t))

\* String.prototype.trim
RECURSIVE Trim(_)
Trim(t) ==
    IF t = <<>> THEN t
    ELSE IF IsSpace(t[1]) THEN Trim(Tail(t))
    ELSE IF IsSpace(t[Len(t)]) THEN Trim(SubSeq(t, 1, Len(t) - 1))
    ELSE t

preprocessText(text) ==
    LET cleaned == Trim(CollapseSpaces(text))
    IN  IF Len(cleaned) > TextCeiling THEN SubSeq(cleaned, 1, TextCeiling) ELSE cleaned

\* the JavaScript truthiness of cleanText.trim()
NonEmptyText(clean) == Trim(clean) # <<>>

---------------------------------------------------------------------------
(* The remote embedding service and its failures *)

NoEmb == [null |-> TRUE]

\* The vector the remote model returns for a text.  The vectors are chosen
\* with integral norms; they include opposite, orthogonal, zero and
\* differently-dimensioned vectors.
VecOf(clean) ==
    LET c == clean[1] % 6
    IN  CASE c = 1 -> <<1, 0>>
          [] c = 2 -> <<0 - 1, 0>>
          [] c = 3 -> <<0, 1>>
          [] c = 4 -> <<3, 4>>
          [] c = 5 -> <<0, 0>>
          [] OTHER -> <<1, 0, 0>>

\* response.data[k].embedding for the submitted text `clean`; the field `of`
\* records which text the vector was computed for.
RemoteEmbedding(clean) == [of |-> clean, vec |-> VecOf(clean)]

\* An error object as isRetryableError inspects it: error.response?.status,
\* error.status and error.code; 0 and "" stand for undefined.
Err(rs, s, c) == [respStatus |-> rs, status |-> s, code |-> c]
NoErr == Err(0, 0, "none")

RetryableErrors ==
    { Err(0, 429, ""), Err(0, 503, ""), Err(502, 0, ""), Err(0, 0, "ECONNRESET"),
      Err(0, 0, "ENOTFOUND") }
FatalErrors ==
    { Err(0, 400, ""), Err(0, 501, ""), Err(404, 503, ""), Err(0, 0, "ETIMEDOUT") }
Errors == RetryableErrors \cup FatalErrors

RetryableCodes == {429, 500, 502, 503, 504}

isRetryableError(error) ==
    LET statusCode == IF error.respStatus # 0 THEN error.respStatus ELSE error.status
    IN  \/ statusCode \in RetryableCodes
        \/ error.code = "ENOTFOUND"
        \/ error.code = "ECONNRESET"

\* what one await of client.embeddings.create can produce
Outcomes == {[kind |-> "data", err |-> NoErr], [kind |-> "nodata", err |-> NoErr]}
            \cup {[kind |-> "throw", err |-> e] : e \in Errors}

---------------------------------------------------------------------------
(* Listings and preferences *)

\* UserPreferences; an absent field is 0, <<>> or FALSE (the code tests every
\* field by its truthiness or its length, so undefined, 0 and [] fall together).
\* Ratings are in hundredths of a percent point, prices in whole dollars.
Preferences(maxPrice, preferredCondition, minimumSellerRating, freeShippingOnly, keywords) ==
    [maxPrice |-> maxPrice, preferredCondition |-> preferredCondition,
     minimumSellerRating |-> minimumSellerRating,
     freeShippingOnly |-> freeShippingOnly, keywords |-> keywords]

NoPreferences == Preferences(0, <<>>, 0, FALSE, <<>>)

---------------------------------------------------------------------------
(* The market averages of MLDealScoringService *)

\* initializeMarketAverages
InitialAverages ==
    [c \in {"electronics", "clothing", "books", "home", "automotive", "general"} |->
       CASE c = "electronics" -> 250
         [] c = "clothing" -> 45
         [] c = "books" -> 15
         [] c = "home" -> 85
         [] c = "automotive" -> 150
         [] OTHER -> 75]

---------------------------------------------------------------------------
(* AzureOpenAIEmbeddingService: constructor and initializeClient *)

Envs == [endpoint : BOOLEAN, apiKey : BOOLEAN, production : BOOLEAN]

\* The constructor: initializeClient runs synchronously up to its first
\* await (or to its end) before the constructor returns.
Constructor ==
    /\ initPc = "new"
    /\ \E ctorThrows \in BOOLEAN :
         IF ~env.endpoint
           THEN /\ initPc' = "done"
                /\ UNCHANGED <<client, isConfigured>>
         ELSE IF env.production /\ ~env.apiKey
           THEN /\ initPc' = "awaitToken"
                /\ UNCHANGED <<client, isConfigured>>
         ELSE IF env.apiKey
           THEN /\ initPc' = "done"
                /\ IF ctorThrows
                     THEN client' = client /\ isConfigured' = FALSE
                     ELSE client' = TRUE /\ isConfigured' = TRUE
         ELSE /\ initPc' = "done"
              /\ UNCHANGED <<client, isConfigured>>
    /\ UNCHANGED <<env, obs, embedVars, batchVars, rankVars, dealVars, scoreVars>>
    /\ UNCHANGED <<cosVars, searchVars>>

\* credential.getToken settles: the continuation of initializeClient
TokenSettles ==
    /\ initPc = "awaitToken"
    /\ \E outcome \in {"token", "credentialError"} :
         /\ initPc' = "done"
         /\ IF outcome = "token"
              THEN client' = TRUE /\ isConfigured' = TRUE
              ELSE UNCHANGED <<client, isConfigured>>
    /\ UNCHANGED <<env, obs, embedVars, batchVars, rankVars, dealVars, scoreVars>>
    /\ UNCHANGED <<cosVars, searchVars>>

isAvailable == isConfigured

\* a caller asks isAvailable() once the constructor has returned
IsAvailableCall ==
    /\ initPc # "new"
    /\ Len(obs) < MaxObs
    /\ obs' = Append(obs, isAvailable)
    /\ UNCHANGED <<env, initPc, client, isConfigured, embedVars, batchVars, rankVars>>
    /\ UNCHANGED <<dealVars, scoreVars>>
    /\ UNCHANGED <<cosVars, searchVars>>

EmbedIdle ==
    /\ e_pc = "idle" /\ e_text = <<>> /\ e_retry = 0 /\ e_attempts = 0
    /\ e_delays = <<>> /\ e_lastErr = NoErr /\ e_result = NoEmb

BatchIdle ==
    /\ b_pc = "idle" /\ b_texts = <<>> /\ b_i = 0 /\ b_results = <<>> /\ b_log = <<>>

RankIdle ==
    /\ r_pc = "idle" /\ items = <<>> /\ prefs = NoPreferences /\ query = <<>>
    /\ r_avail = "unchecked" /\ r_queryEmb = NoEmb /\ r_path = "none" /\ r_result = <<>>
    /\ r_passAt = 0

\* the deal scoring service as its constructor leaves it
DealFresh ==
    /\ marketAverages = InitialAverages
    /\ m_applied = <<>>

ScoreIdle ==
    /\ s_done = {} /\ s_ranked = <<>> /\ s_deals = <<>>

\* no call of calculateCosineSimilarity yet
NoOutcome == [kind |-> "none"]

CosineIdle ==
    /\ c_a = <<>> /\ c_b = <<>> /\ c_out = NoOutcome

\* no request, no response yet
NoRequest == [keywords |-> <<>>, userPreferences |-> NoPreferences, useAIRanking |-> FALSE]
NoResponse == [status |-> 0]

SearchIdle ==
    /\ p_pc = "idle" /\ p_request = NoRequest /\ p_token = FALSE /\ p_failure = "none"
    /\ p_fetched = <<>> /\ p_ranked = <<>> /\ p_response = NoResponse

InitService ==
    /\ env \in Envs
    /\ initPc = "new"
    /\ client = FALSE
    /\ isConfigured = FALSE
    /\ obs = <<>>
    /\ EmbedIdle
    /\ BatchIdle
    /\ RankIdle
    /\ DealFresh
    /\ ScoreIdle
    /\ CosineIdle
    /\ SearchIdle

NextService == Constructor \/ TokenSettles \/ IsAvailableCall

SpecService == InitService /\ [][NextService]_vars

---------------------------------------------------------------------------
(* generateEmbedding(text, retryCount = 0) *)

MaxRetries == 3

\* the states initializeClient can leave the service in, and the one in
\* which the managed-identity token is still awaited
ServiceStates ==
    { [env |-> [endpoint |-> TRUE, apiKey |-> TRUE, production |-> FALSE],
       initPc |-> "done", client |-> TRUE, isConfigured |-> TRUE],
      [env |-> [endpoint |-> FALSE, apiKey |-> FALSE, production |-> FALSE],
       initPc |-> "done", client |-> FALSE, isConfigured |-> FALSE],
      [env |-> [endpoint |-> TRUE, apiKey |-> FALSE, production |-> TRUE],
       initPc |-> "awaitToken", client |-> FALSE, isConfigured |-> FALSE] }

ServiceIn(s) ==
    /\ env = s.env /\ initPc = s.initPc /\ client = s.client
    /\ isConfigured = s.isConfigured /\ obs = <<>>

\* a chain whose promise is never resolved
EmbedReturnHangs(v) ==
    /\ e_pc' = e_pc
    /\ e_result' = v

\* the chain resolves to v
EmbedReturn(v) ==
    /\ e_pc' = "ret"
    /\ e_result' = v

\* Entry of one invocation, up to the await of embeddings.create.
EmbedEnter ==
    /\ e_pc = "call"
    /\ IF ~isConfigured \/ ~client
         THEN EmbedReturn(NoEmb) /\ UNCHANGED e_attempts
       ELSE IF ~NonEmptyText(preprocessText(e_text))
         THEN EmbedReturn(NoEmb) /\ UNCHANGED e_attempts
       ELSE /\ e_pc' = "await"
            /\ e_attempts' = e_attempts + 1
            /\ UNCHANGED e_result
    /\ UNCHANGED <<e_text, e_retry, e_delays, e_lastErr>>
    /\ UNCHANGED <<svcVars, batchVars, rankVars, dealVars, scoreVars>>
    /\ UNCHANGED <<cosVars, searchVars>>

\* the retry condition of the catch block
ShouldRetryOffByOne(retryCount, error) ==
    retryCount <= MaxRetries /\ isRetryableError(error)

ShouldRetry(retryCount, error) ==
    retryCount < MaxRetries /\ isRetryableError(error)

\* the backoff before the retry made after retryCount earlier retries
BackoffDelay(retryCount) == Pow2(retryCount) * 1000

\* embeddings.create settles: the rest of the try block, or the catch block
\* up to its await of the backoff timer.
EmbedSettle ==
    /\ e_pc = "await"
    /\ \E o \in Outcomes :
         CASE o.kind = "data" ->
                /\ EmbedReturn(RemoteEmbedding(preprocessText(e_text)))
                /\ UNCHANGED <<e_delays, e_lastErr>>
           [] o.kind = "nodata" ->
                /\ EmbedReturn(NoEmb)
                /\ UNCHANGED <<e_delays, e_lastErr>>
           [] OTHER ->
                /\ e_lastErr' = o.err
                /\ IF ShouldRetry(e_retry, o.err)
                     THEN /\ e_pc' = "sleep"
                          /\ e_delays' = Append(e_delays, BackoffDelay(e_retry))
                          /\ UNCHANGED e_result
                     ELSE /\ EmbedReturn(NoEmb)
                          /\ UNCHANGED e_delays
    /\ UNCHANGED <<e_text, e_retry, e_attempts>>
    /\ UNCHANGED <<svcVars, batchVars, rankVars, dealVars, scoreVars>>
    /\ UNCHANGED <<cosVars, searchVars>>

\* the backoff timer fires: return this.generateEmbedding(text, retryCount + 1)
EmbedRetry ==
    /\ e_pc = "sleep"
    /\ e_pc' = "call"
    /\ e_retry' = e_retry + 1
    /\ UNCHANGED <<e_text, e_attempts, e_delays, e_lastErr, e_result>>
    /\ UNCHANGED <<svcVars, batchVars, rankVars, dealVars, scoreVars>>
    /\ UNCHANGED <<cosVars, searchVars>>

EmbedTexts == { <<>>, <<0, 0>>, <<1>>, <<0, 2, 0, 0, 3>>, <<4, 0>> }

InitEmbed ==
    /\ \E s \in ServiceStates : ServiceIn(s)
    /\ e_pc = "call"
    /\ e_text \in EmbedTexts
    /\ e_retry = 0 /\ e_attempts = 0 /\ e_delays = <<>>
    /\ e_lastErr = NoErr /\ e_result = NoEmb
    /\ BatchIdle
    /\ RankIdle
    /\ DealFresh
    /\ ScoreIdle
    /\ CosineIdle
    /\ SearchIdle

NextEmbed == EmbedEnter \/ EmbedSettle \/ EmbedRetry \/ TokenSettles

SpecEmbed == InitEmbed /\ [][NextEmbed]_vars

---------------------------------------------------------------------------
(* generateBatchEmbeddings(texts) *)

BatchSize == 16

\* texts.slice(i, i + batchSize), i a 0-based offset
Slice(texts, i) == SubSeq(texts, i + 1, Min(i + BatchSize, Len(texts)))

\* batch.map(text => this.preprocessText(text)).filter(text => text.trim())
CleanBatch(batch) ==
    SelectSeq([k \in 1..Len(batch) |-> preprocessText(batch[k])], NonEmptyText)

\* the while loop that pads results up to i + batch.length
PadToNoPadding(results, n) == results

PadTo(results, n) ==
    results \o Fill(Max(0, n - Len(results)), NoEmb)

\* results.push(...embeddings) followed by the padding loop
GroupData(results, i, batch) ==
    LET cleanBatch == CleanBatch(batch)
        embeddings == [k \in 1..Len(cleanBatch) |-> RemoteEmbedding(cleanBatch[k])]
    IN  PadTo(results \o embeddings, i + Len(batch))

\* results.push(...Array(batch.length).fill(null))
GroupNullsWipesResults(results, batch) == Fill(Len(results) + Len(batch), NoEmb)

GroupNulls(results, batch) == results \o Fill(Len(batch), NoEmb)

LogEntry(i, kind) == [at |-> i, kind |-> kind]

\* a loop that submits the group after the one at offset i without waiting
\* for the one at offset i to settle
LoopFromFansOut(texts, i, results, log) ==
    IF ~(i < Len(texts))
      THEN [pc |-> "ret", i |-> i, results |-> results, log |-> log]
    ELSE IF i + BatchSize < Len(texts)
      THEN [pc |-> "await", i |-> i + BatchSize,
            results |-> GroupNulls(results, Slice(texts, i)), log |-> log]
    ELSE [pc |-> "await", i |-> i, results |-> results, log |-> log]

\* The for loop from its head at offset i up to the next await or the
\* return: groups whose texts are all empty are filled with nulls and
\* skipped (continue) without suspending.
RECURSIVE LoopFrom(_, _, _, _)
LoopFrom(texts, i, results, log) ==
    IF ~(i < Len(texts))
      THEN [pc |-> "ret", i |-> i, results |-> results, log |-> log]
    ELSE IF Len(CleanBatch(Slice(texts, i))) = 0
      THEN LoopFrom(texts, i + BatchSize,
                    GroupNulls(results, Slice(texts, i)),
                    Append(log, LogEntry(i, "empty")))
    ELSE [pc |-> "await", i |-> i, results |-> results, log |-> log]

BatchGoto(st) ==
    /\ b_pc' = st.pc
    /\ b_i' = st.i
    /\ b_results' = st.results
    /\ b_log' = st.log

\* Entry of the call, up to the first await or the return.
BatchEnter ==
    /\ b_pc = "call"
    /\ IF ~isConfigured \/ ~client
         THEN /\ b_pc' = "ret"
              /\ b_results' = Fill(Len(b_texts), NoEmb)
              /\ UNCHANGED <<b_i, b_log>>
         ELSE BatchGoto(LoopFrom(b_texts, 0, <<>>, <<>>))
    /\ UNCHANGED b_texts
    /\ UNCHANGED <<svcVars, embedVars, rankVars, dealVars, scoreVars>>
    /\ UNCHANGED <<cosVars, searchVars>>

\* a loop body that submits a group once more after its request failed
BatchSettleRetriesOnce ==
    /\ b_pc = "await"
    /\ \E kind \in {"data", "nodata", "throw"} :
         LET batch == Slice(b_texts, b_i)
             results == CASE kind = "data" -> GroupData(b_results, b_i, batch)
                          [] OTHER -> GroupNulls(b_results, batch)
             log == Append(b_log, LogEntry(b_i, kind))
         IN  IF kind = "throw" /\ \A g \in 1..Len(b_log) : b_log[g].at # b_i
               THEN /\ b_log' = log
                    /\ UNCHANGED <<b_pc, b_i, b_results>>
             ELSE IF b_i + BatchSize < Len(b_texts)
               THEN /\ b_pc' = "pause"
                    /\ b_results' = results
                    /\ b_log' = log
                    /\ UNCHANGED b_i
               ELSE BatchGoto(LoopFrom(b_texts, b_i + BatchSize, results, log))
    /\ UNCHANGED b_texts
    /\ UNCHANGED <<svcVars, embedVars, rankVars, dealVars, scoreVars>>
    /\ UNCHANGED <<cosVars, searchVars>>

\* embeddings.create for the group at b_i settles: the rest of the loop body
\* up to the rate-limit await, or (last group) the end of the loop.
BatchSettle ==
    /\ b_pc = "await"
    /\ \E kind \in {"data", "nodata", "throw"} :
         LET batch == Slice(b_texts, b_i)
             results == CASE kind = "data" -> GroupData(b_results, b_i, batch)
                          [] OTHER -> GroupNulls(b_results, batch)
             log == Append(b_log, LogEntry(b_i, kind))
         IN  IF b_i + BatchSize < Len(b_texts)
               THEN /\ b_pc' = "pause"
                    /\ b_results' = results
                    /\ b_log' = log
                    /\ UNCHANGED b_i
               ELSE BatchGoto(LoopFrom(b_texts, b_i + BatchSize, results, log))
    /\ UNCHANGED b_texts
    /\ UNCHANGED <<svcVars, embedVars, rankVars, dealVars, scoreVars>>
    /\ UNCHANGED <<cosVars, searchVars>>

\* the 100 ms rate-limit timer fires: i += batchSize and the loop goes on
BatchResume ==
    /\ b_pc = "pause"
    /\ BatchGoto(LoopFrom(b_texts, b_i + BatchSize, b_results, b_log))
    /\ UNCHANGED b_texts
    /\ UNCHANGED <<svcVars, embedVars, rankVars, dealVars, scoreVars>>
    /\ UNCHANGED <<cosVars, searchVars>>

\* Inputs of the batch specification: n texts, pairwise different, with
\* blank texts at some of the positions around the group boundaries, or
\* filling a whole group.
MaxTexts == 33

BlankSpots == {1, 2, 16, 17, 18, 33}
BlankTexts == { <<>>, <<0, 0>> }

TextAt(k) == IF k % 2 = 0 THEN <<0, k, 0, 0, k>> ELSE <<k>>

BlankSets(n) ==
    {S \cap (1..n) : S \in SUBSET BlankSpots}
      \cup {1..Min(n, BatchSize), (BatchSize + 1)..n}

BatchInputs ==
    UNION { { [k \in 1..n |-> IF k \in E THEN blank ELSE TextAt(k)] :
                E \in BlankSets(n), blank \in BlankTexts } : n \in 0..MaxTexts }

InitBatch ==
    /\ \E s \in ServiceStates : ServiceIn(s)
    /\ EmbedIdle
    /\ b_pc = "call"
    /\ b_texts \in BatchInputs
    /\ b_i = 0 /\ b_results = <<>> /\ b_log = <<>>
    /\ RankIdle
    /\ DealFresh
    /\ ScoreIdle
    /\ CosineIdle
    /\ SearchIdle

NextBatch == BatchEnter \/ BatchSettle \/ BatchResume \/ TokenSettles

SpecBatch == InitBatch /\ [][NextBatch]_vars

---------------------------------------------------------------------------
(* Numbers *)

NullScore == 0 - 1

\* the JavaScript truthiness of a number | null | undefined
Truthy(x) == x # NullScore /\ x # 0

\* a rounding that truncates
RoundDiv100Truncates(n) == n \div 100

\* Math.round(x * 100) / 100 of a non-negative x given as n / 100 hundredths
RoundDiv100(n) == (n + 50) \div 100

\* the largest r with r * r <= n (exact on the perfect squares used here)
ISqrt(n) == CHOOSE r \in 0..n : r * r <= n /\ (r + 1) * (r + 1) > n

---------------------------------------------------------------------------
(* Strings of the preference scorer *)

\* String.prototype.toUpperCase on the condition strings used
ToUpperCase(c) ==
    CASE c \in {"New", "new"} -> "NEW"
      [] c \in {"Used", "used"} -> "USED"
      [] c = "Like New" -> "LIKE NEW"
      [] c = "new other" -> "NEW OTHER"
      [] c = "For parts" -> "FOR PARTS"
      [] c = "Used - Good" -> "USED - GOOD"
      [] c = "For parts or not working" -> "FOR PARTS OR NOT WORKING"
      [] OTHER -> c

\* u.includes('NEW'), u.includes('USED') on the upper-cased condition strings
IncludesNEW(u) == u \in {"NEW", "LIKE NEW", "NEW OTHER"}
IncludesUSED(u) == u \in {"USED", "USED - GOOD"}

\* String.prototype.toLowerCase: codes above 10 are the capitals of the
\* codes 10 below them
ToLowerCase(t) == [k \in 1..Len(t) |-> IF t[k] > 10 THEN t[k] - 10 ELSE t[k]]

\* hay.includes(needle)
Includes(hay, needle) ==
    \E k \in 0..(Len(hay) - Len(needle)) : SubSeq(hay, k + 1, k + Len(needle)) = needle

---------------------------------------------------------------------------
(* The five preference sub-scores and the composite (getTraditionalRanking) *)

\* `!maxPrice` holds of undefined and of 0
calculatePriceScore(item, maxPrice) ==
    IF ~Truthy(maxPrice) THEN 5000
    ELSE IF item.price > maxPrice THEN 0
    ELSE Max(0, 10000 - (item.price * 5000) \div maxPrice)

\* a condition score that compares the preferred entries as they are written
calculateConditionScoreCaseSensitive(item, preferredConditions) ==
    LET itemCondition == ToUpperCase(item.condition)
        written == Range(preferredConditions)
    IN  IF Len(preferredConditions) = 0 THEN 5000
        ELSE IF itemCondition \in written THEN 10000
        ELSE IF IncludesNEW(itemCondition) /\ \E c \in written : IncludesNEW(c) THEN 8000
        ELSE IF IncludesUSED(itemCondition) /\ \E c \in written : IncludesUSED(c) THEN 6000
        ELSE 2000

calculateConditionScore(item, preferredConditions) ==
    LET itemCondition == ToUpperCase(item.condition)
        upper == {ToUpperCase(c) : c \in Range(preferredConditions)}
    IN  IF Len(preferredConditions) = 0 THEN 5000
        ELSE IF itemCondition \in upper THEN 10000
        ELSE IF IncludesNEW(itemCondition) /\ \E c \in upper : IncludesNEW(c) THEN 8000
        ELSE IF IncludesUSED(itemCondition) /\ \E c \in upper : IncludesUSED(c) THEN 6000
        ELSE 2000

\* a seller score whose bonus is not capped
calculateSellerScoreUncapped(item, minimumRating) ==
    IF minimumRating = 0 THEN 5000
    ELSE IF item.feedbackPercentage < minimumRating THEN 0
    ELSE 5000 + (item.feedbackPercentage - minimumRating) * 2

calculateSellerScore(item, minimumRating) ==
    IF minimumRating = 0 THEN 5000
    ELSE IF item.feedbackPercentage < minimumRating THEN 0
    ELSE Min(10000, 5000 + Min((item.feedbackPercentage - minimumRating) * 2, 5000))

calculateShippingScore(item, freeShippingOnly) ==
    IF ~freeShippingOnly THEN 5000
    ELSE IF \E k \in 1..Len(item.shippingOptions) : item.shippingOptions[k] = 0
      THEN 10000
    ELSE 0

calculateKeywordScore(item, keywords) ==
    LET itemText == ToLowerCase(item.title \o <<Space>> \o item.shortDescription)
        matchCount == Cardinality({k \in 1..Len(keywords) :
                                     Includes(itemText, ToLowerCase(keywords[k]))})
    IN  IF Len(keywords) = 0 THEN 5000
        ELSE Min(10000, (matchCount * 10000) \div Len(keywords))

\* one element of getTraditionalRanking's result: the RankedItem of a listing
TraditionalItem(item, preferences) ==
    LET priceScore == calculatePriceScore(item, preferences.maxPrice)
        conditionScore == calculateConditionScore(item, preferences.preferredCondition)
        sellerScore == calculateSellerScore(item, preferences.minimumSellerRating)
        shippingScore == calculateShippingScore(item, preferences.freeShippingOnly)
        keywordScore == calculateKeywordScore(item, preferences.keywords)
        relevanceScore == 25 * priceScore + 15 * conditionScore + 20 * sellerScore
                          + 15 * shippingScore + 25 * keywordScore
    IN  [item |-> item,
         relevanceScore |-> RoundDiv100(relevanceScore),
         rankingFactors |-> [priceScore |-> priceScore, conditionScore |-> conditionScore,
                             sellerScore |-> sellerScore, shippingScore |-> shippingScore,
                             keywordScore |-> keywordScore]]

getTraditionalRanking(its, preferences) ==
    [k \in 1..Len(its) |-> TraditionalItem(its[k], preferences)]

---------------------------------------------------------------------------
(* EbayRankingEngine.rankItems (the preference-only engine) *)

\* calculateRelevanceScore: the five sub-scores and the composite, the code
\* the enhanced engine repeats in getTraditionalRanking
calculateRelevanceScore(item, preferences) == TraditionalItem(item, preferences)

\* .filter(item => item.relevanceScore > 0)
MeetsCriteria(rankedItem) == rankedItem.relevanceScore > 0

\* .sort((a, b) => b.relevanceScore - a.relevanceScore)
SortByRelevance(list) ==
    SortDescendingBy(list, [k \in 1..Len(list) |-> list[k].relevanceScore])

rankItems(its, preferences) ==
    LET scored == [k \in 1..Len(its) |-> calculateRelevanceScore(its[k], preferences)]
    IN  SortByRelevance(SelectSeq(scored, MeetsCriteria))

---------------------------------------------------------------------------
(* The deal score (MLDealScoringService) *)

\* Units.  A feature, the linear score and the model's output are kept in
\* millionths, the argument of tanh in hundred-thousandths, a title quality,
\* a condition quality and a confidence in hundredths, a market average in
\* dollars, a shipping cost in cents.  Math.tanh and the logistic function
\* are tabulated (rounded to a millionth) and interpolated linearly between
\* the entries; the outcome is within 0.002 of the code's overall score.

\* Math.tanh(x) + 1 at x = -2.00, -1.98, ..., 4.00
TanhTable ==
    << 35972, 37413, 38910, 40466, 42083, 43763, 45508, 47321, 49205, 51162,
       53194, 55305, 57497, 59773, 62137, 64591, 67138, 69783, 72527, 75376,
       78331, 81398, 84580, 87880, 91302, 94852, 98532, 102347, 106302, 110401,
       114648, 119049, 123607, 128328, 133216, 138277, 143515, 148936, 154544, 160346,
       166345, 172548, 178960, 185586, 192431, 199501, 206801, 214336, 222112, 230133,
       238406, 246934, 255723, 264778, 274103, 283702, 293581, 303742, 314191, 324930,
       335963, 347293, 358923, 370855, 383091, 395632, 408481, 421637, 435100, 448872,
       462950, 477335, 492023, 507012, 522300, 537883, 553756, 569916, 586356, 603070,
       620051, 637293, 654786, 672523, 690493, 708687, 727095, 745704, 764504, 783482,
       802625, 821919, 841351, 860908, 880573, 900332, 920170, 940072, 960021, 980003,
       1000000, 1019997, 1039979, 1059928, 1079830, 1099668, 1119427, 1139092, 1158649, 1178081,
       1197375, 1216518, 1235496, 1254296, 1272905, 1291313, 1309507, 1327477, 1345214, 1362707,
       1379949, 1396930, 1413644, 1430084, 1446244, 1462117, 1477700, 1492988, 1507977, 1522665,
       1537050, 1551128, 1564900, 1578363, 1591519, 1604368, 1616909, 1629145, 1641077, 1652707,
       1664037, 1675070, 1685809, 1696258, 1706419, 1716298, 1725897, 1735222, 1744277, 1753066,
       1761594, 1769867, 1777888, 1785664, 1793199, 1800499, 1807569, 1814414, 1821040, 1827452,
       1833655, 1839654, 1845456, 1851064, 1856485, 1861723, 1866784, 1871672, 1876393, 1880951,
       1885352, 1889599, 1893698, 1897653, 1901468, 1905148, 1908698, 1912120, 1915420, 1918602,
       1921669, 1924624, 1927473, 1930217, 1932862, 1935409, 1937863, 1940227, 1942503, 1944695,
       1946806, 1948838, 1950795, 1952679, 1954492, 1956237, 1957917, 1959534, 1961090, 1962587,
       1964028, 1965414, 1966747, 1968030, 1969265, 1970452, 1971594, 1972693, 1973749, 1974766,
       1975743, 1976683, 1977587, 1978457, 1979293, 1980096, 1980869, 1981613, 1982327, 1983014,
       1983675, 1984310, 1984921, 1985508, 1986072, 1986614, 1987136, 1987637, 1988119, 1988582,
       1989027, 1989455, 1989867, 1990262, 1990642, 1991007, 1991359, 1991696, 1992020, 1992332,
       1992632, 1992919, 1993196, 1993462, 1993718, 1993963, 1994199, 1994426, 1994644, 1994853,
       1995055, 1995248, 1995434, 1995613, 1995784, 1995949, 1996108, 1996260, 1996407, 1996547,
       1996682, 1996812, 1996937, 1997057, 1997172, 1997283, 1997389, 1997492, 1997590, 1997684,
       1997775, 1997862, 1997946, 1998026, 1998104, 1998178, 1998249, 1998318, 1998384, 1998447,
       1998508, 1998566, 1998623, 1998677, 1998728, 1998778, 1998826, 1998872, 1998916, 1998959,
       1999000, 1999039, 1999076, 1999113, 1999147, 1999181, 1999213, 1999244, 1999273, 1999302,
       1999329 >>

\* 1 / (1 + Math.exp(-x)) at x = -0.50, -0.49, ..., 1.50
SigmoidTable ==
    << 377541, 379894, 382252, 384616, 386986, 389361, 391741, 394126, 396517, 398912,
       401312, 403717, 406127, 408541, 410960, 413382, 415809, 418241, 420676, 423115,
       425557, 428004, 430454, 432907, 435364, 437823, 440286, 442752, 445221, 447692,
       450166, 452642, 455121, 457602, 460085, 462570, 465057, 467546, 470036, 472528,
       475021, 477515, 480011, 482507, 485004, 487503, 490001, 492501, 495000, 497500,
       500000, 502500, 505000, 507499, 509999, 512497, 514996, 517493, 519989, 522485,
       524979, 527472, 529964, 532454, 534943, 537430, 539915, 542398, 544879, 547358,
       549834, 552308, 554779, 557248, 559714, 562177, 564636, 567093, 569546, 571996,
       574443, 576885, 579324, 581759, 584191, 586618, 589040, 591459, 593873, 596283,
       598688, 601088, 603483, 605874, 608259, 610639, 613014, 615384, 617748, 620106,
       622459, 624806, 627148, 629483, 631812, 634136, 636453, 638763, 641067, 643365,
       645656, 647941, 650219, 652489, 654753, 657010, 659260, 661503, 663739, 665967,
       668188, 670401, 672607, 674805, 676996, 679179, 681354, 683521, 685680, 687831,
       689974, 692110, 694236, 696355, 698465, 700567, 702661, 704746, 706822, 708890,
       710950, 713000, 715042, 717075, 719100, 721115, 723122, 725119, 727108, 729088,
       731059, 733020, 734973, 736916, 738850, 740775, 742691, 744597, 746494, 748382,
       750260, 752129, 753989, 755839, 757680, 759511, 761333, 763145, 764948, 766741,
       768525, 770299, 772064, 773819, 775564, 777300, 779026, 780743, 782450, 784147,
       785835, 787513, 789182, 790841, 792490, 794130, 795760, 797380, 798991, 800592,
       802184, 803766, 805338, 806901, 808455, 809998, 811533, 813057, 814573, 816078,
       817574 >>

\* the entry of a table of step `step` starting at `lo`, interpolated; an
\* argument outside the table takes the nearest entry
Interpolate(table, lo, step, x) ==
    LET hi == lo + (Len(table) - 1) * step
        k == (x - lo) \div step
        r == (x - lo) % step
    IN  IF x <= lo THEN table[1]
        ELSE IF x >= hi THEN table[Len(table)]
        ELSE table[k + 1] + ((table[k + 2] - table[k + 1]) * r) \div step

\* Math.tanh of an argument in hundred-thousandths
Tanh(x) == Interpolate(TanhTable, 0 - 200000, 2000, x) - 1000000

\* 1 / (1 + Math.exp(-score))
Sigmoid(score) == Interpolate(SigmoidTable, 0 - 500000, 10000, score)

Abs(x) == IF x < 0 THEN 0 - x ELSE x

\* Math.round of a non-negative number of millionths, to whole hundredths
RoundToHundredths(x) == (x + 5000) \div 10000

\* Map.prototype.set for every entry of categoryAverages
SetAll(averages, categoryAverages) ==
    [c \in DOMAIN averages \cup DOMAIN categoryAverages |->
       IF c \in DOMAIN categoryAverages THEN categoryAverages[c] ELSE averages[c]]

\* an update that stops after its first entry
updateMarketAveragesStopsEarly(averages, categoryAverages) ==
    LET first == CHOOSE c \in DOMAIN categoryAverages :
                   \A d \in DOMAIN categoryAverages : categoryAverages[c] <= categoryAverages[d]
    IN  [c \in DOMAIN averages \cup {first} |->
           IF c = first THEN categoryAverages[c] ELSE averages[c]]

\* updateMarketAverages: the table after the call (the forEach runs to its
\* end without suspending)
updateMarketAverages(averages, categoryAverages) == SetAll(averages, categoryAverages)

\* getMarketAverage, in tenths of a dollar; a missing or zero average gives
\* currentPrice * 1.2
getMarketAverage(averages, category, currentPrice) ==
    LET average == IF category \in DOMAIN averages THEN averages[category] ELSE 0
    IN  IF average # 0 THEN average * 10 ELSE currentPrice * 12

\* normalizePriceRatio: tanh((price / marketAverage - 1) * 2)
normalizePriceRatio(price, marketAverage) ==
    Tanh(((price * 10 - marketAverage) * 200000) \div marketAverage)

\* calculateShippingRatio
calculateShippingRatio(item, itemPrice) ==
    IF Len(item.shippingOptions) = 0 THEN 500000
    ELSE IF item.shippingOptions[1] = 0 THEN 0
    ELSE Min(1000000, (item.shippingOptions[1] * 10000) \div itemPrice)

\* conditionMap[key], 0 for a key the map does not have
ConditionMap(key) ==
    CASE key = "NEW" -> 100
      [] key = "LIKE_NEW" -> 90
      [] key = "EXCELLENT" -> 85
      [] key = "VERY_GOOD" -> 75
      [] key = "GOOD" -> 60
      [] key = "ACCEPTABLE" -> 40
      [] key = "USED" -> 50
      [] key = "REFURBISHED" -> 70
      [] key = "FOR_PARTS_OR_NOT_WORKING" -> 20
      [] OTHER -> 0

\* u.replace(/\s+/g, '_') on the upper-cased condition strings used
Underscored(u) ==
    CASE u = "LIKE NEW" -> "LIKE_NEW"
      [] u = "NEW OTHER" -> "NEW_OTHER"
      [] u = "FOR PARTS" -> "FOR_PARTS"
      [] u = "FOR PARTS OR NOT WORKING" -> "FOR_PARTS_OR_NOT_WORKING"
      [] OTHER -> u

\* MLDealScoringService.calculateConditionScore, in hundredths
dealConditionScore(condition) ==
    LET known == ConditionMap(Underscored(ToUpperCase(condition)))
    IN  IF known # 0 THEN known ELSE 50

\* calculateTitleQuality, in hundredths.  Which of the five patterns match
\* the title is a datum of the listing, item.titleMarks.
calculateTitleQuality(item) ==
    LET n == Len(item.title)
        score == 50
                 + (IF n > 30 /\ n < 120 THEN 20 ELSE 0)
                 - (IF n < 20 THEN 20 ELSE 0)
                 + (IF "brandModel" \in item.titleMarks THEN 15 ELSE 0)
                 + (IF "condition" \in item.titleMarks THEN 10 ELSE 0)
                 + (IF "size" \in item.titleMarks THEN 10 ELSE 0)
                 - (IF "spam" \in item.titleMarks THEN 15 ELSE 0)
                 - (IF "questionMarks" \in item.titleMarks THEN 10 ELSE 0)
    IN  Max(0, Min(100, score))

\* extractFeatures(item, marketCategory) with marketCategory undefined
extractFeatures(averages, item) ==
    LET marketAverage == getMarketAverage(averages, "general", item.price)
    IN  [priceVsAverage |-> normalizePriceRatio(item.price, marketAverage),
         sellerRating |-> item.feedbackPercentage * 100,
         shippingCostRatio |-> calculateShippingRatio(item, item.price),
         conditionScore |-> dealConditionScore(item.condition) * 10000,
         titleQualityScore |-> calculateTitleQuality(item) * 10000,
         listingAgeScore |-> 800000,
         bidCountScore |-> 600000]

\* the linear combination of calculateDealScore, in millionths
LinearScore(features) ==
    (15 * 1000000 + 25 * features.sellerRating + 20 * features.conditionScore
       + 10 * features.titleQualityScore + 5 * features.listingAgeScore
       + 5 * features.bidCountScore
       - 35 * features.priceVsAverage - 15 * features.shippingCostRatio) \div 100

\* a score that is the linear combination itself
calculateDealScoreLinear(features) == LinearScore(features)

calculateDealScore(features) == Sigmoid(LinearScore(features))

\* a confidence whose penalty for a low seller rating is 0.45
calculateConfidenceHarsh(features) ==
    LET confidence == 50
                      + (IF features.sellerRating > 950000 THEN 20 ELSE 0)
                      + (IF Abs(features.priceVsAverage) > 300000 THEN 15 ELSE 0)
                      + (IF features.titleQualityScore > 800000 THEN 10 ELSE 0)
                      - (IF features.sellerRating < 900000 THEN 45 ELSE 0)
    IN  Max(10, Min(100, confidence))

\* calculateConfidence, in hundredths
calculateConfidence(features) ==
    LET confidence == 50
                      + (IF features.sellerRating > 950000 THEN 20 ELSE 0)
                      + (IF Abs(features.priceVsAverage) > 300000 THEN 15 ELSE 0)
                      + (IF features.titleQualityScore > 800000 THEN 10 ELSE 0)
                      - (IF features.sellerRating < 900000 THEN 15 ELSE 0)
    IN  Max(10, Min(100, confidence))

\* calculateFactorScores, in hundredths of a point like every other score
calculateFactorScores(features) ==
    [priceScore |-> RoundToHundredths(1000000 - Abs(features.priceVsAverage)) * 100,
     sellerScore |-> RoundToHundredths(features.sellerRating) * 100,
     shippingScore |-> RoundToHundredths(1000000 - features.shippingCostRatio) * 100,
     conditionScore |-> RoundToHundredths(features.conditionScore) * 100,
     titleScore |-> RoundToHundredths(features.titleQualityScore) * 100,
     freshnessScore |-> RoundToHundredths(features.listingAgeScore) * 100]

\* getRecommendation, on the overall score before rounding, in thousandths
getRecommendation(score) ==
    IF score >= 80000 THEN "excellent"
    ELSE IF score >= 65000 THEN "good"
    ELSE IF score >= 40000 THEN "fair"
    ELSE "poor"

\* the object the catch block of scoreDeal returns
NeutralDealScore ==
    [overallScore |-> 5000, confidence |-> 10,
     factors |-> [priceScore |-> 5000, sellerScore |-> 5000, shippingScore |-> 5000,
                  conditionScore |-> 5000, titleScore |-> 5000, freshnessScore |-> 5000],
     recommendation |-> "fair"]

\* scoreDeal against the table `averages`.  A listing on which the try block
\* throws (feature extraction reads a field the listing lacks at run time)
\* has item.dealFault.  overallScore is in hundredths, rounded from the
\* thousandths the recommendation is taken from.
scoreDealOn(averages, item) ==
    IF item.dealFault THEN NeutralDealScore
    ELSE LET features == extractFeatures(averages, item)
             rawScore == calculateDealScore(features)
             overallScore == Max(0, Min(100000, rawScore \div 10))
         IN  [overallScore |-> (overallScore + 5) \div 10,
              confidence |-> calculateConfidence(features),
              factors |-> calculateFactorScores(features),
              recommendation |-> getRecommendation(overallScore)]

scoreDeal(item) == scoreDealOn(marketAverages, item)

\* a batch that gives up at the first listing that faults
scoreBatchDealsAbortsOnFault(its) ==
    [k \in 1..Len(its) |->
       IF \E j \in 1..k : its[j].dealFault THEN NeutralDealScore ELSE scoreDeal(its[k])]

scoreBatchDeals(its) == [k \in 1..Len(its) |-> scoreDeal(its[k])]

---------------------------------------------------------------------------
(* Cosine similarity and the semantic scores *)

RECURSIVE Dot(_, _)
Dot(a, b) == IF a = <<>> THEN 0 ELSE a[1] * b[1] + Dot(Tail(a), Tail(b))

\* the value the code returns, in thousandths
Returns(value) == [kind |-> "return", value |-> value]

\* throw new Error(message)
Throws(message) == [kind |-> "throw", message |-> message]

\* a similarity that compares the common prefix of vectors of different
\* dimensions instead of throwing
calculateCosineSimilarityUnchecked(embedding1, embedding2) ==
    LET n == Min(Len(embedding1), Len(embedding2))
        a == SubSeq(embedding1, 1, n)
        b == SubSeq(embedding2, 1, n)
        norm1 == ISqrt(Dot(a, a))
        norm2 == ISqrt(Dot(b, b))
    IN  IF norm1 = 0 \/ norm2 = 0 THEN Returns(0)
        ELSE Returns((Dot(a, b) * 1000) \div (norm1 * norm2))

\* AzureOpenAIEmbeddingService.calculateCosineSimilarity
calculateCosineSimilarity(embedding1, embedding2) ==
    IF Len(embedding1) # Len(embedding2)
      THEN Throws("Embeddings must have the same dimension")
    ELSE LET dotProduct == Dot(embedding1, embedding2)
             norm1 == ISqrt(Dot(embedding1, embedding1))
             norm2 == ISqrt(Dot(embedding2, embedding2))
         IN  IF norm1 = 0 \/ norm2 = 0 THEN Returns(0)
             ELSE Returns((dotProduct * 1000) \div (norm1 * norm2))

\* Vectors of dimension 0 to 3 whose norms are 0, 1, 2, 5 or 10, so that the
\* square roots and the quotients are exact
CosineVectors ==
    { <<>>, <<0>>, <<5>>, <<0 - 1>>, <<0, 0>>, <<1, 0>>, <<0, 0 - 2>>, <<3, 4>>,
      <<0 - 4, 3>>, <<6, 8>>, <<0 - 3, 0 - 4>>, <<0, 0, 0>>, <<0, 3, 4>>, <<0 - 2, 0, 0>>,
      <<0, 0, 5>> }

CosineCall ==
    /\ c_out = NoOutcome
    /\ c_out' = calculateCosineSimilarity(c_a, c_b)
    /\ UNCHANGED <<c_a, c_b>>
    /\ UNCHANGED <<svcVars, embedVars, batchVars, rankVars, dealVars, scoreVars, searchVars>>

InitCosine ==
    /\ ServiceIn(CHOOSE st \in ServiceStates : st.isConfigured)
    /\ EmbedIdle
    /\ BatchIdle
    /\ RankIdle
    /\ DealFresh
    /\ ScoreIdle
    /\ SearchIdle
    /\ c_a \in CosineVectors
    /\ c_b \in CosineVectors
    /\ c_out = NoOutcome

NextCosine == CosineCall

SpecCosine == InitCosine /\ [][NextCosine]_vars

\* One element of calculateSemanticScores' similarities: the score in
\* hundredths, max(0, min(100, (similarity + 1) * 50)), or NullScore when the
\* embedding is null or calculateCosineSimilarity throws on the dimensions;
\* `of` keeps the text the embedding was computed for.
NoSemantic == [score |-> NullScore, of |-> <<>>]

Similarity(queryEmbedding, embedding) ==
    IF embedding = NoEmb THEN NoSemantic
    ELSE IF Len(queryEmbedding.vec) # Len(embedding.vec) THEN NoSemantic
    ELSE LET dotProduct == Dot(queryEmbedding.vec, embedding.vec)
             norm1 == ISqrt(Dot(queryEmbedding.vec, queryEmbedding.vec))
             norm2 == ISqrt(Dot(embedding.vec, embedding.vec))
             score == IF norm1 = 0 \/ norm2 = 0 THEN 5000
                      ELSE (5000 * (norm1 * norm2 + dotProduct)) \div (norm1 * norm2)
         IN  [score |-> Max(0, Min(10000, score)), of |-> embedding.of]

Similarities(queryEmbedding, itemEmbeddings) ==
    [k \in 1..Len(itemEmbeddings) |-> Similarity(queryEmbedding, itemEmbeddings[k])]

\* items.map(() => null)
AllNull(its) == [k \in 1..Len(its) |-> NoSemantic]

\* items.map(item => `${item.title} ${item.shortDescription || ''}`)
ItemTexts(its) == [k \in 1..Len(its) |-> its[k].title \o <<Space>> \o its[k].shortDescription]

---------------------------------------------------------------------------
(* combineScores, the sort and fallbackToTraditional *)

\* semanticScore || 50
NormalizedSemanticZeroDefault(semanticScore) ==
    IF Truthy(semanticScore) THEN semanticScore ELSE 0

NormalizedSemantic(semanticScore) ==
    IF Truthy(semanticScore) THEN semanticScore ELSE 5000

\* an optional string that is undefined
NoReason == "undefined"

\* getDealExplanation: the template's recommendation and quality, and the
\* factors joined after them
getDealExplanation(dealScore) ==
    [recommendation |-> dealScore.recommendation,
     quality |-> dealScore.overallScore,
     factors |->
       (IF dealScore.factors.priceScore > 7500 THEN <<"competitive pricing">> ELSE <<>>)
       \o (IF dealScore.factors.sellerScore > 8500 THEN <<"trusted seller">> ELSE <<>>)
       \o (IF dealScore.factors.shippingScore > 8000 THEN <<"low shipping cost">> ELSE <<>>)
       \o (IF dealScore.factors.conditionScore > 8000 THEN <<"good condition">> ELSE <<>>)]

\* generateExplanation(semanticScore, dealScore, traditionalItem)
generateExplanation(semanticScore, dealScore, traditionalItem) ==
    LET semanticReason ==
          IF semanticScore >= 7500 THEN "Highly relevant to your search intent"
          ELSE IF semanticScore >= 6000 THEN "Good match for your search intent"
          ELSE IF semanticScore >= 4000 THEN "Somewhat relevant to your search"
          ELSE "Limited relevance to your search intent"
        f == traditionalItem.rankingFactors
        traditionalFactors ==
          (IF f.priceScore > 7000 THEN <<"great price">> ELSE <<>>)
          \o (IF f.sellerScore > 8000 THEN <<"excellent seller">> ELSE <<>>)
          \o (IF f.shippingScore > 8000 THEN <<"free shipping">> ELSE <<>>)
          \o (IF f.keywordScore > 7000 THEN <<"keyword match">> ELSE <<>>)
        overallReason ==
          IF semanticScore >= 7000 /\ dealScore.overallScore >= 7000
            THEN <<"Excellent match: highly relevant and great deal quality">>
          ELSE IF semanticScore >= 6000 \/ dealScore.overallScore >= 7000
            THEN <<"Good option: ", IF semanticScore >= 6000 THEN "relevant to your needs"
                                    ELSE "attractive deal">>
          ELSE <<"Consider carefully: ", IF semanticScore < 4000 THEN "limited relevance"
                                         ELSE "fair deal quality">>
    IN  [semanticReason |-> IF Truthy(semanticScore) THEN semanticReason ELSE NoReason,
         dealReason |-> getDealExplanation(dealScore),
         overallReason |-> [text |-> overallReason, factors |-> traditionalFactors]]

\* An EnhancedRankedItem.  finalScore is aiRankingFactors.finalScore in
\* ten-thousandths; semComputed and semOf keep, for the properties, the
\* element of semanticScores the item was combined with.
combineScores(traditionalItem, semantic, dealScore) ==
    LET normalizedTraditional == traditionalItem.relevanceScore
        normalizedSemantic == NormalizedSemantic(semantic.score)
        normalizedDeal == dealScore.overallScore
        finalScore == 35 * normalizedSemantic + 35 * normalizedDeal
                      + 30 * normalizedTraditional
    IN  [item |-> traditionalItem.item,
         rankingFactors |-> traditionalItem.rankingFactors,
         semanticScore |-> IF Truthy(semantic.score) THEN semantic.score ELSE NullScore,
         dealScore |-> dealScore,
         semanticSimilarity |-> normalizedSemantic,
         dealQuality |-> normalizedDeal,
         traditionalRelevance |-> normalizedTraditional,
         finalScore |-> RoundDiv100(finalScore) * 100,
         explanation |-> generateExplanation(normalizedSemantic, dealScore, traditionalItem),
         semComputed |-> semantic.score,
         semOf |-> semantic.of]

\* semanticScores[index]: undefined beyond the end of the array
SemanticAt(semanticScores, index) ==
    IF index \in DOMAIN semanticScores THEN semanticScores[index] ELSE NoSemantic

\* .sort((a, b) => b.finalScore - a.finalScore)
SortByFinalScore(list) ==
    SortDescendingBy(list, [k \in 1..Len(list) |-> list[k].finalScore])

\* steps 3 to 5 of rankItemsWithAI
FinishRanking(its, preferences, semanticScores) ==
    LET traditionalRanked == getTraditionalRanking(its, preferences)
        dealScores == scoreBatchDeals(its)
        enhancedItems == [k \in 1..Len(its) |->
                            combineScores(traditionalRanked[k],
                                          SemanticAt(semanticScores, k), dealScores[k])]
    IN  SortByFinalScore(enhancedItems)

fallbackToTraditional(its, preferences) ==
    LET traditionalRanked == getTraditionalRanking(its, preferences)
        dealScores == scoreBatchDeals(its)
    IN  [k \in 1..Len(its) |->
           [item |-> traditionalRanked[k].item,
            rankingFactors |-> traditionalRanked[k].rankingFactors,
            semanticScore |-> NullScore,
            dealScore |-> dealScores[k],
            semanticSimilarity |-> 5000,
            dealQuality |-> dealScores[k].overallScore,
            traditionalRelevance |-> traditionalRanked[k].relevanceScore,
            finalScore |-> (traditionalRanked[k].relevanceScore
                            + dealScores[k].overallScore) * 50,
            explanation |->
              [semanticReason |-> NoReason,
               dealReason |-> getDealExplanation(dealScores[k]),
               overallReason |->
                 [text |-> <<"Ranked using traditional factors and deal quality assessment">>,
                  factors |-> <<>>]],
            semComputed |-> NullScore,
            semOf |-> <<>>]]


---------------------------------------------------------------------------
(* rankItemsWithAI(items, preferences, userQuery) *)

\* userQuery && azureOpenAIService.isAvailable()
SemanticPhaseEnabledIgnoresAvailability(userQuery, available) == userQuery # <<>>

SemanticPhaseEnabled(userQuery, available) == userQuery # <<>> /\ available

\* Steps 3 to 5 and the return; `fault` is an exception escaping the try
\* block, which the catch block answers with fallbackToTraditional.
RankReturn(semanticScores, fault) ==
    /\ r_pc' = "done"
    /\ r_passAt' = Len(m_applied)
    /\ IF fault
         THEN /\ r_path' = "fallback"
              /\ r_result' = fallbackToTraditional(items, prefs)
         ELSE /\ r_path' = "main"
              /\ r_result' = FinishRanking(items, prefs, semanticScores)

\* Steps 1 and 2 up to the call of generateEmbedding(userQuery), or, when
\* the semantic phase is skipped, the whole call.
RankStart ==
    /\ r_pc = "start"
    /\ r_avail' = IF query = <<>> THEN "unchecked"
                  ELSE IF isAvailable THEN "true" ELSE "false"
    /\ IF SemanticPhaseEnabled(query, isAvailable)
         THEN /\ r_pc' = "awaitQuery"
              /\ e_pc' = "call"
              /\ e_text' = query
              /\ UNCHANGED <<r_path, r_result, r_passAt, e_retry, e_attempts,
                             e_delays, e_lastErr, e_result>>
         ELSE /\ \E fault \in BOOLEAN : RankReturn(<<>>, fault)
              /\ UNCHANGED embedVars
    /\ UNCHANGED <<items, prefs, query, r_queryEmb>>
    /\ UNCHANGED <<svcVars, batchVars, dealVars, scoreVars>>
    /\ UNCHANGED <<cosVars, searchVars>>

\* calculateSemanticScores without the test of the query embedding: the item
\* texts are requested whatever generateEmbedding(userQuery) resolved to
RankAfterQueryGoesOn ==
    /\ r_pc = "awaitQuery"
    /\ e_pc = "ret"
    /\ r_queryEmb' = e_result
    /\ r_pc' = "awaitBatch"
    /\ b_pc' = "call"
    /\ b_texts' = ItemTexts(items)
    /\ UNCHANGED <<r_path, r_result, r_passAt, b_i, b_results, b_log>>
    /\ UNCHANGED <<items, prefs, query, r_avail>>
    /\ UNCHANGED <<svcVars, embedVars, dealVars, scoreVars>>
    /\ UNCHANGED <<cosVars, searchVars>>

\* calculateSemanticScores after generateEmbedding(userQuery) resolved: up to
\* the call of generateBatchEmbeddings, or, without a query embedding, the
\* rest of the call.
RankAfterQuery ==
    /\ r_pc = "awaitQuery"
    /\ e_pc = "ret"
    /\ r_queryEmb' = e_result
    /\ IF e_result = NoEmb
         THEN /\ \E fault \in BOOLEAN : RankReturn(AllNull(items), fault)
              /\ UNCHANGED batchVars
         ELSE /\ r_pc' = "awaitBatch"
              /\ b_pc' = "call"
              /\ b_texts' = ItemTexts(items)
              /\ UNCHANGED <<r_path, r_result, r_passAt, b_i, b_results, b_log>>
    /\ UNCHANGED <<items, prefs, query, r_avail>>
    /\ UNCHANGED <<svcVars, embedVars, dealVars, scoreVars>>
    /\ UNCHANGED <<cosVars, searchVars>>

\* calculateSemanticScores after generateBatchEmbeddings resolved, and the
\* rest of the call; `semThrows` is an exception inside
\* calculateSemanticScores, which its catch block answers with all nulls.
RankAfterBatch ==
    /\ r_pc = "awaitBatch"
    /\ b_pc = "ret"
    /\ \E semThrows, fault \in BOOLEAN :
         RankReturn(IF semThrows THEN AllNull(items)
                    ELSE Similarities(r_queryEmb, b_results), fault)
    /\ UNCHANGED <<items, prefs, query, r_avail, r_queryEmb>>
    /\ UNCHANGED <<svcVars, embedVars, batchVars, dealVars, scoreVars>>
    /\ UNCHANGED <<cosVars, searchVars>>

\* Inputs of the ranking specification
MaxItems == 3

\* an EbayItem: id, title, price (dollars), condition, seller feedback
\* percentage (hundredths), shipping costs (cents), and the two data of the
\* deal score: the title patterns that match, and whether scoring faults
Listing(id, title, price, cond, feedback, shipping, marks, dealFault) ==
    [itemId |-> id, title |-> title, shortDescription |-> <<>>, price |-> price,
     condition |-> cond, feedbackPercentage |-> feedback,
     shippingOptions |-> shipping, titleMarks |-> marks, dealFault |-> dealFault]

Listings ==
    { Listing(1, <<1, 0, 17>>, 83, "New", 9700, <<0>>, {}, FALSE),
      Listing(2, <<2>>, 120, "Used", 9000, <<500>>, {"condition"}, FALSE),
      Listing(3, <<>>, 50, "Like New", 9700, <<>>, {"spam"}, FALSE),
      Listing(4, <<4, 7>>, 100, "USED", 9500, <<300, 0>>, {}, TRUE),
      Listing(5, <<6, 0, 0, 8>>, 20, "For parts", 10000, <<0>>, {"brandModel", "size"}, FALSE) }

\* one list longer than a group of generateBatchEmbeddings, its second title
\* blank
BulkList ==
    [k \in 1..(BatchSize + 1) |->
       Listing(100 + k, IF k = 2 THEN <<Space>> ELSE <<k>>, 10 + 5 * k, "Used",
               9000 + 50 * k, <<>>, {}, FALSE)]

PreferenceSets ==
    { NoPreferences,
      Preferences(100, <<"new">>, 9500, TRUE, <<<<7>>, <<18>>>>) }

Queries == { <<>>, <<0>>, <<1, 0, 7>> }

\* the lists of at most n pairwise different listings
ItemLists(n) ==
    UNION { {l \in [1..k -> Listings] : \A a, b \in 1..k : a # b => l[a] # l[b]} :
              k \in 0..n }

InitRank ==
    /\ \E s \in ServiceStates : ServiceIn(s)
    /\ EmbedIdle
    /\ BatchIdle
    /\ r_pc = "start"
    /\ items \in ItemLists(MaxItems) \cup {BulkList}
    /\ prefs \in PreferenceSets
    /\ query \in Queries
    /\ r_avail = "unchecked" /\ r_queryEmb = NoEmb /\ r_path = "none" /\ r_result = <<>>
    /\ r_passAt = 0
    /\ DealFresh
    /\ ScoreIdle
    /\ CosineIdle
    /\ SearchIdle

NextRank ==
    \/ RankStart \/ RankAfterQuery \/ RankAfterBatch
    \/ EmbedEnter \/ EmbedSettle \/ EmbedRetry
    \/ BatchEnter \/ BatchSettle \/ BatchResume
    \/ TokenSettles

SpecRank == InitRank /\ [][NextRank]_vars

---------------------------------------------------------------------------
(* rankItemsWithAI when every step that can run does run *)

\* Every continuation of the call is a task or timer of the event loop, which
\* runs it once it is ready, and every remote call settles.
InitRankFair ==
    /\ InitRank
    /\ Len(items) <= 2 \/ items = BulkList

\* the steps that a settling embeddings.create of the query chain, its
\* backoff timer or the token request make
RemoteSteps == EmbedEnter \/ EmbedSettle \/ EmbedRetry \/ TokenSettles

\* the continuation of generateBatchEmbeddings, by its position: what
\* BatchEnter, BatchSettle and BatchResume do to b_pc, under their guards
BatchProceeds ==
    \/ /\ b_pc = "call"
       /\ b_pc' \in {"await", "ret"}
    \/ /\ b_pc = "await"
       /\ b_pc' = IF b_i + BatchSize < Len(b_texts) THEN "pause" ELSE "ret"
    \/ /\ b_pc = "pause"
       /\ b_pc' \in {"await", "ret"}

\* the continuation of rankItemsWithAI, by its position: what RankStart,
\* RankAfterQuery and RankAfterBatch do to r_pc, under their guards
RankProceeds ==
    \/ /\ r_pc = "start"
       /\ r_pc' = IF SemanticPhaseEnabled(query, isAvailable) THEN "awaitQuery" ELSE "done"
    \/ /\ r_pc = "awaitQuery"
       /\ e_pc = "ret"
       /\ r_pc' = IF e_result = NoEmb THEN "done" ELSE "awaitBatch"
    \/ /\ r_pc = "awaitBatch"
       /\ b_pc = "ret"
       /\ r_pc' = "done"

SpecRankFair ==
    /\ InitRankFair /\ [][NextRank]_vars
    /\ WF_vars(RemoteSteps) /\ WF_b_pc(BatchProceeds) /\ WF_r_pc(RankProceeds)

---------------------------------------------------------------------------
(* rankItemsWithAI while updateMarketAverages calls arrive *)

MaxUpdates == 2

\* arguments of updateMarketAverages: Maps of one and of two entries
Updates ==
    { [c \in {"general"} |-> 50],
      [c \in {"general", "electronics"} |-> IF c = "general" THEN 100 ELSE 300] }

\* one updateMarketAverages call; it runs between two tasks of the event loop
UpdateMarketAverages ==
    /\ Len(m_applied) < MaxUpdates
    /\ \E categoryAverages \in Updates :
         /\ marketAverages' = updateMarketAverages(marketAverages, categoryAverages)
         /\ m_applied' = Append(m_applied, categoryAverages)
    /\ UNCHANGED <<svcVars, embedVars, batchVars, rankVars, scoreVars>>
    /\ UNCHANGED <<cosVars, searchVars>>

InitMarket ==
    /\ InitRank
    /\ prefs = NoPreferences
    /\ query # <<0>>
    /\ Len(items) <= 1 \/ items = BulkList
           \/ (Len(items) = 2 /\ items[1].itemId = 1 /\ items[2].itemId = 2)

NextMarket == NextRank \/ UpdateMarketAverages

SpecMarket == InitMarket /\ [][NextMarket]_vars

---------------------------------------------------------------------------
(* The scorers called on their own *)

\* preferences with every field absent or present, the limits chosen so that
\* every quotient is exact
ScoringPreferences ==
    { Preferences(maxPrice, preferredCondition, minimumSellerRating, freeShippingOnly, keywords) :
        maxPrice \in {NullScore, 0, 50, 100},
        preferredCondition \in {<<>>, <<"new">>, <<"Used", "Like New">>, <<"USED">>,
                                <<"Used - Good">>},
        minimumSellerRating \in {0, 5000, 9500},
        freeShippingOnly \in BOOLEAN,
        keywords \in {<<>>, <<<<7>>, <<18>>>>} }

\* the listings at the two ends of the deal model: free, new, from a seller
\* rated 100, with a long title that matches the three good patterns; and far
\* above the market average, for parts, from a seller rated 0, with shipping
\* dearer than the item and a short title that matches the two bad patterns
BestDeal ==
    Listing(6, [k \in 1..31 |-> 3], 0, "New", 10000, <<0>>,
            {"brandModel", "condition", "size"}, FALSE)

WorstDeal ==
    Listing(7, <<9>>, 500, "For parts or not working", 0, <<60000>>,
            {"spam", "questionMarks"}, FALSE)

\* a listing near the market average, from a seller rated 80, with a plain
\* short title
UnsureDeal == Listing(8, <<5>>, 75, "Used", 8000, <<>>, {}, FALSE)

DealExtremes ==
    { <<BestDeal>>, <<WorstDeal>>, <<WorstDeal, BestDeal>>,
      <<UnsureDeal, BestDeal, CHOOSE l \in Listings : l.dealFault>> }

RankItemsCall ==
    /\ "rankItems" \notin s_done
    /\ s_done' = s_done \cup {"rankItems"}
    /\ s_ranked' = rankItems(items, prefs)
    /\ UNCHANGED s_deals
    /\ UNCHANGED <<svcVars, embedVars, batchVars, rankVars, dealVars>>
    /\ UNCHANGED <<cosVars, searchVars>>

ScoreBatchDealsCall ==
    /\ "scoreBatchDeals" \notin s_done
    /\ s_done' = s_done \cup {"scoreBatchDeals"}
    /\ s_deals' = scoreBatchDeals(items)
    /\ UNCHANGED s_ranked
    /\ UNCHANGED <<svcVars, embedVars, batchVars, rankVars, dealVars>>
    /\ UNCHANGED <<cosVars, searchVars>>

InitScoring ==
    /\ ServiceIn(CHOOSE st \in ServiceStates : st.isConfigured)
    /\ EmbedIdle
    /\ BatchIdle
    /\ r_pc = "idle"
    /\ items \in ItemLists(MaxItems) \cup DealExtremes
    /\ prefs \in ScoringPreferences
    /\ query = <<>>
    /\ r_avail = "unchecked" /\ r_queryEmb = NoEmb /\ r_path = "none" /\ r_result = <<>>
    /\ r_passAt = 0
    /\ DealFresh
    /\ ScoreIdle
    /\ CosineIdle
    /\ SearchIdle

NextScoring == RankItemsCall \/ ScoreBatchDealsCall

SpecScoring == InitScoring /\ [][NextScoring]_vars


---------------------------------------------------------------------------
(* POST /api/search and the EbayAPIClient it calls *)

\* rankedItems.slice(0, 50)
TopLimit == 50

\* An error message, as the sequence of its words; includes() of a phrase is
\* the search of its words as a contiguous part.
AuthFailedMessage == <<"Failed", "to", "authenticate", "with", "eBay", "API">>
SearchFailedMessage == <<"Failed", "to", "search", "eBay", "items">>
JsonMessage == <<"Unexpected", "end", "of", "JSON", "input">>
AxiosMessage(status) == <<"Request", "failed", "with", "status", "code", status>>

MessageIncludes(message, phrase) ==
    \E i \in 0..(Len(message) - Len(phrase)) :
        SubSeq(message, i + 1, i + Len(phrase)) = phrase

\* the catch block of getAccessToken: whatever was caught, one new Error
getAccessTokenCatch(error) == AuthFailedMessage

\* the catch block of searchItems, which also wraps getAccessToken's call
searchItemsCatch(error) == SearchFailedMessage

\* the catch block of POST: the status it answers an Error's message with
PostCatch(message) ==
    IF MessageIncludes(message, <<"authenticate">>) THEN 401
    ELSE IF MessageIncludes(message, <<"rate", "limit">>) THEN 429
    ELSE 500

\* a response that keeps every ranked item
TopItemsUnsliced(rankedItems) == rankedItems

TopItems(rankedItems) == SubSeq(rankedItems, 1, Min(TopLimit, Len(rankedItems)))

ErrorResponse(status) == [status |-> status]

EmptyResponse == [status |-> 200, items |-> <<>>, total |-> 0]

SuccessResponse(fetched, rankedItems, useAIRanking) ==
    LET topItems == TopItems(rankedItems)
    IN  [status |-> 200, items |-> topItems, total |-> Len(topItems),
         originalTotal |-> Len(fetched), aiEnhanced |-> useAIRanking]

\* an exception reaches POST's catch block; `cause` records what failed
PostThrows(message, cause) ==
    /\ p_pc' = "done"
    /\ p_failure' = cause
    /\ p_response' = ErrorResponse(PostCatch(message))

\* POST from request.json() up to the first await inside searchItems: the
\* body does not parse, the keywords are missing, or getAccessToken returns
\* the cached token or posts for a new one
PostEnter ==
    /\ p_pc = "json"
    /\ \E parsed \in BOOLEAN :
         IF ~parsed
           THEN PostThrows(JsonMessage, "other")
           ELSE IF p_request.keywords = <<>>
             THEN /\ p_pc' = "done"
                  /\ p_response' = ErrorResponse(400)
                  /\ UNCHANGED p_failure
             ELSE /\ p_pc' = IF p_token THEN "awaitSearch" ELSE "awaitToken"
                  /\ UNCHANGED <<p_failure, p_response>>
    /\ UNCHANGED <<p_request, p_token, p_fetched, p_ranked>>
    /\ UNCHANGED <<svcVars, embedVars, batchVars, rankVars, dealVars, scoreVars, cosVars>>

\* the token request of getAccessToken settles
EbayTokenResponds ==
    /\ p_pc = "awaitToken"
    /\ \E granted \in BOOLEAN :
         IF granted
           THEN /\ p_token' = TRUE
                /\ p_pc' = "awaitSearch"
                /\ UNCHANGED <<p_failure, p_response>>
           ELSE /\ PostThrows(searchItemsCatch(getAccessTokenCatch(AxiosMessage("401"))), "auth")
                /\ UNCHANGED p_token
    /\ UNCHANGED <<p_request, p_fetched, p_ranked>>
    /\ UNCHANGED <<svcVars, embedVars, batchVars, rankVars, dealVars, scoreVars, cosVars>>

\* one list longer than the response may be; the listings behind the first
\* group of generateBatchEmbeddings have no title
LongList ==
    [k \in 1..(TopLimit + 5) |->
       Listing(200 + k, IF k <= BatchSize THEN <<k>> ELSE <<>>, 10 + ((7 * k) % 55),
               IF k % 2 = 0 THEN "New" ELSE "Used", 9000 + 10 * k,
               IF k % 3 = 0 THEN <<0>> ELSE <<>>, {}, FALSE)]

\* what the item_summary/search request can settle with
SearchOutcomes ==
    {[kind |-> "data", itemSummaries |-> l, status |-> "200", cause |-> "none"] :
        l \in ItemLists(2) \cup {LongList}}
    \cup {[kind |-> "nodata", itemSummaries |-> <<>>, status |-> "200", cause |-> "none"]}
    \cup {[kind |-> "error", itemSummaries |-> <<>>, status |-> "401", cause |-> "auth"],
          [kind |-> "error", itemSummaries |-> <<>>, status |-> "429", cause |-> "rate"],
          [kind |-> "error", itemSummaries |-> <<>>, status |-> "500", cause |-> "other"]}

\* the search request of searchItems settles, and POST goes on up to its
\* response or up to the await of rankItemsWithAI
EbaySearchResponds ==
    /\ p_pc = "awaitSearch"
    /\ \E out \in SearchOutcomes :
         IF out.kind = "error"
           THEN /\ PostThrows(searchItemsCatch(AxiosMessage(out.status)), out.cause)
                /\ UNCHANGED <<p_fetched, p_ranked, rankVars, scoreVars>>
           ELSE /\ p_fetched' = out.itemSummaries
                /\ UNCHANGED p_failure
                /\ IF out.itemSummaries = <<>>
                     THEN /\ p_pc' = "done"
                          /\ p_response' = EmptyResponse
                          /\ UNCHANGED <<p_ranked, rankVars, scoreVars>>
                     ELSE IF p_request.useAIRanking
                       THEN /\ p_pc' = "awaitRank"
                            /\ r_pc' = "start"
                            /\ items' = out.itemSummaries
                            /\ prefs' = p_request.userPreferences
                            /\ query' = p_request.keywords
                            /\ UNCHANGED <<r_avail, r_queryEmb, r_path, r_result, r_passAt>>
                            /\ UNCHANGED <<p_ranked, p_response, scoreVars>>
                       ELSE /\ p_pc' = "done"
                            /\ s_done' = s_done \cup {"rankItems"}
                            /\ p_ranked' = rankItems(out.itemSummaries, p_request.userPreferences)
                            /\ p_response' = SuccessResponse(out.itemSummaries, p_ranked', FALSE)
                            /\ UNCHANGED <<s_ranked, s_deals, rankVars>>
    /\ UNCHANGED <<p_request, p_token>>
    /\ UNCHANGED <<svcVars, embedVars, batchVars, dealVars, cosVars>>

\* rankItemsWithAI has resolved: the rest of POST
PostAfterRank ==
    /\ p_pc = "awaitRank"
    /\ r_pc = "done"
    /\ p_pc' = "done"
    /\ p_ranked' = r_result
    /\ p_response' = SuccessResponse(p_fetched, r_result, TRUE)
    /\ UNCHANGED <<p_request, p_token, p_failure, p_fetched>>
    /\ UNCHANGED <<svcVars, embedVars, batchVars, rankVars, dealVars, scoreVars, cosVars>>

\* request bodies
SearchRequests ==
    { [keywords |-> keywords, userPreferences |-> userPreferences, useAIRanking |-> useAIRanking] :
        keywords \in Queries, userPreferences \in PreferenceSets, useAIRanking \in BOOLEAN }

InitSearch ==
    /\ \E s \in ServiceStates : ServiceIn(s)
    /\ EmbedIdle
    /\ BatchIdle
    /\ RankIdle
    /\ DealFresh
    /\ ScoreIdle
    /\ CosineIdle
    /\ p_pc = "json"
    /\ p_request \in SearchRequests
    /\ p_token \in BOOLEAN
    /\ p_failure = "none"
    /\ p_fetched = <<>> /\ p_ranked = <<>>
    /\ p_response = NoResponse

NextSearch ==
    \/ PostEnter \/ EbayTokenResponds \/ EbaySearchResponds \/ PostAfterRank
    \/ NextRank

SpecSearch == InitSearch /\ [][NextSearch]_vars

---------------------------------------------------------------------------
(* Properties of generateBatchEmbeddings *)

\* the 1-based positions of the group at offset i
GroupPositions(texts, i) == (i + 1)..Min(i + BatchSize, Len(texts))

\* the number of groups of a list of n texts
GroupCount(n) == (n + BatchSize - 1) \div BatchSize

\* C5: generateBatchEmbeddings preserves input order: result[i] is null or
\* the embedding the remote service returned for texts[i], and a text that
\* is empty after preprocessing has null at its own index.
C5_OrderPreserved ==
    b_pc = "ret" =>
      \A k \in 1..Len(b_texts) :
        /\ k \in DOMAIN b_results
        /\ LET clean == preprocessText(b_texts[k])
           IN  IF NonEmptyText(clean)
                 THEN b_results[k] \in {NoEmb, RemoteEmbedding(clean)}
                 ELSE b_results[k] = NoEmb

\* C6: the list generateBatchEmbeddings returns has the length of its input,
\* and while the loop runs the results cover exactly the groups visited.
C6_LengthPreserved ==
    /\ b_pc = "ret" => Len(b_results) = Len(b_texts)
    /\ b_pc = "await" => Len(b_results) = b_i
    /\ b_pc = "pause" => Len(b_results) = b_i + BatchSize

C6_Witness ==
    /\ b_pc = "ret"
    /\ isConfigured
    /\ Len(b_texts) = BatchSize + 1
    /\ \E k \in 1..Len(b_texts) : ~NonEmptyText(preprocessText(b_texts[k]))
    /\ \E k \in 1..Len(b_texts) : b_results[k] # NoEmb
    /\ {b_log[k].kind : k \in 1..Len(b_log)} = {"data", "throw"}

\* C7: a failed group has null at exactly its own positions; every group is
\* visited, in order, whatever became of the groups before it; and the
\* positions of every other group hold what that group's own call produced.
C7_FailureIsolated ==
    b_pc = "ret" =>
      \/ b_log = <<>> /\ b_results = Fill(Len(b_texts), NoEmb)
      \/ /\ Len(b_log) = GroupCount(Len(b_texts))
         /\ Len(b_results) = Len(b_texts)
         /\ \A g \in 1..Len(b_log) :
              LET i == (g - 1) * BatchSize
                  batch == Slice(b_texts, i)
                  part == SubSeq(b_results, i + 1, i + Len(batch))
              IN  /\ b_log[g].at = i
                  /\ (b_log[g].kind = "empty") = (Len(CleanBatch(batch)) = 0)
                  /\ b_log[g].kind \in {"throw", "nodata", "empty"}
                       => part = Fill(Len(batch), NoEmb)
                  /\ b_log[g].kind = "data" => part = GroupData(<<>>, 0, batch)

C7_Witness ==
    /\ b_pc = "ret"
    /\ Len(b_log) = 3
    /\ b_log[1].kind = "data" /\ b_log[2].kind = "throw" /\ b_log[3].kind = "data"
    /\ b_results[1] # NoEmb
    /\ b_results[Len(b_texts)] # NoEmb
    /\ \A k \in GroupPositions(b_texts, BatchSize) : b_results[k] = NoEmb

---------------------------------------------------------------------------
(* Properties of generateEmbedding *)

\* the failures the retry rule calls transient: 429, the 5xx class, and the
\* two network error codes
TransientFailure(error) ==
    LET statusCode == IF error.respStatus # 0 THEN error.respStatus ELSE error.status
    IN  \/ statusCode = 429
        \/ statusCode \in 500..599
        \/ error.code \in {"ECONNRESET", "ENOTFOUND"}

---------------------------------------------------------------------------
(* Properties of the service's availability *)

\* C9: once the constructor has returned, every isAvailable() call returns
\* what the first one returned.
C9_AvailabilityFixed ==
    \A j, k \in 1..Len(obs) : obs[j] = obs[k]

---------------------------------------------------------------------------
(* Properties of rankItemsWithAI *)

Returned == r_pc = "done"

\* the fusion of a semantic, a deal and a preference score (hundredths),
\* rounded to 2 decimals, in ten-thousandths
Fused(semantic, deal, preference) ==
    RoundDiv100(35 * semantic + 35 * deal + 30 * preference) * 100

\* the returned list holds every input listing exactly once
CoversInput ==
    /\ Len(r_result) = Len(items)
    /\ \A k \in 1..Len(items) :
         Cardinality({j \in 1..Len(r_result) : r_result[j].item = items[k]}) = 1

SortedByFinalScore ==
    \A k \in 1..(Len(r_result) - 1) : r_result[k].finalScore >= r_result[k + 1].finalScore

\* C1: the list a call returns, from the main pipeline or from the
\* fallback, is sorted non-increasing by final score.
C1_ResultSorted == Returned => SortedByFinalScore

\* C2: the returned list holds exactly the input listings, each once, and
\* every returned item carries the preference scores, the deal score and the
\* semantic score computed from its own listing.
C2_NoDropAligned ==
    Returned =>
      /\ CoversInput
      /\ \A j \in 1..Len(r_result) :
           LET x == r_result[j]
               own == TraditionalItem(x.item, prefs)
           IN  /\ x.rankingFactors = own.rankingFactors
               /\ x.traditionalRelevance = own.relevanceScore
               /\ x.dealScore = scoreDeal(x.item)
               /\ x.semComputed # NullScore
                    => x.semOf = preprocessText(ItemTexts(<<x.item>>)[1])

\* C3: on the main pipeline, final = round2(0.35 s + 0.35 deal + 0.30
\* preference) with s the semantic score computed for the item, whatever its
\* value, and 50 only when none was computed; the reported semanticScore is
\* present exactly when one was computed.
C3_FusionFormula ==
    (Returned /\ r_path = "main") =>
      \A j \in 1..Len(r_result) :
        LET x == r_result[j]
            sem == IF x.semComputed # NullScore THEN x.semComputed ELSE 5000
        IN  /\ x.finalScore = Fused(sem, x.dealScore.overallScore, x.traditionalRelevance)
            /\ x.semanticScore = x.semComputed

\* C4: whatever fails in the semantic phase, the call returns a list that
\* covers every input listing, ranked, and every item without a semantic
\* score is combined with the neutral 50 (the combination made by the
\* fallback, after an exception outside the semantic phase, is not this
\* claim's).
C4_SemanticFailureContained ==
    Returned =>
      /\ CoversInput
      /\ \A j \in 1..Len(r_result) :
           r_result[j].semComputed = NullScore
             => /\ r_result[j].semanticSimilarity = 5000
                /\ r_path = "main"
                     => r_result[j].finalScore =
                          Fused(5000, r_result[j].dealScore.overallScore,
                                r_result[j].traditionalRelevance)
      /\ r_path = "main" => SortedByFinalScore
      /\ (r_path = "main" /\ r_avail = "true" /\ r_queryEmb = NoEmb)
           => \A j \in 1..Len(r_result) : r_result[j].semComputed = NullScore

C4_Witness ==
    /\ Returned
    /\ r_path = "main"
    /\ Len(items) = 2
    /\ r_queryEmb # NoEmb
    /\ \E g \in 1..Len(b_log) : b_log[g].kind = "throw"
    /\ \A j \in 1..Len(r_result) : r_result[j].semComputed = NullScore
    /\ r_result[1].finalScore > r_result[2].finalScore

\* remote embedding requests issued so far by the call
RemoteCalls ==
    e_attempts + Cardinality({g \in 1..Len(b_log) : b_log[g].kind # "empty"})
      + (IF b_pc = "await" THEN 1 ELSE 0)

\* C10: the semantic phase is entered, and remote requests are issued, only
\* when the query is non-empty and isAvailable() was true at the check; a
\* call that finds the service unavailable makes no remote call, reports no
\* semantic score, and still scores and combines every item.
C10_SemanticPhaseGated ==
    /\ (e_pc # "idle" \/ b_pc # "idle" \/ RemoteCalls > 0)
         => query # <<>> /\ r_avail = "true"
    /\ (Returned /\ r_avail # "true")
         => /\ RemoteCalls = 0
            /\ e_pc = "idle" /\ b_pc = "idle"
            /\ CoversInput
            /\ \A j \in 1..Len(r_result) :
                 LET x == r_result[j]
                 IN  /\ x.semanticScore = NullScore
                     /\ x.semComputed = NullScore
                     /\ x.dealScore = scoreDeal(x.item)
                     /\ r_path = "main"
                          => x.finalScore = Fused(5000, scoreDeal(x.item).overallScore,
                                                  TraditionalItem(x.item, prefs).relevanceScore)

C10_Witness ==
    /\ Returned
    /\ r_path = "main"
    /\ query # <<>>
    /\ r_avail = "false"
    /\ ~isConfigured
    /\ Len(r_result) = 2

---------------------------------------------------------------------------
(* Properties of the semantic phase *)

\* the item embedding at position k has another dimension than the query
\* embedding
MismatchAt(k) ==
    /\ r_queryEmb # NoEmb
    /\ k \in DOMAIN b_results
    /\ b_results[k] # NoEmb
    /\ Len(b_results[k].vec) # Len(r_queryEmb.vec)

\* C11: a dimension mismatch between the query embedding and an item
\* embedding is a fault of the ranking call: a call whose similarities were
\* computed does not return a ranked list when one of the item embeddings
\* has another dimension than the query embedding.
C11_MismatchIsFault ==
    (/\ Returned
     /\ r_path = "main"
     /\ \E j \in 1..Len(r_result) : r_result[j].semComputed # NullScore)
      => \A k \in 1..Len(b_results) : ~MismatchAt(k)

\* C12: a call without a query reports no semantic score, makes no remote
\* call, and on the main pipeline combines every item with the neutral 50:
\* final = round2(0.35 * 50 + 0.35 * deal + 0.30 * preference), whatever the
\* state of the embedding service.
C12_NoQueryNeutral ==
    (Returned /\ query = <<>>) =>
      /\ RemoteCalls = 0
      /\ CoversInput
      /\ \A j \in 1..Len(r_result) :
           LET x == r_result[j]
               deal == scoreDeal(x.item).overallScore
               preference == TraditionalItem(x.item, prefs).relevanceScore
           IN  /\ x.semanticScore = NullScore
               /\ x.semanticSimilarity = 5000
               /\ x.dealQuality = deal
               /\ x.traditionalRelevance = preference
               /\ r_path = "main"
                    => x.finalScore =
                         ((35 * 5000 + 35 * deal + 30 * preference + 50) \div 100) * 100

C12_Witness ==
    /\ Returned
    /\ r_path = "main"
    /\ query = <<>>
    /\ isConfigured
    /\ prefs # NoPreferences
    /\ Len(r_result) = 2
    /\ r_result[1].finalScore > r_result[2].finalScore
    /\ \E j \in 1..2 : r_result[j].finalScore % 10000 # 0

---------------------------------------------------------------------------
(* Properties of the deal score *)

\* C13: scoreBatchDeals returns one DealScore per listing, in input order; a
\* listing on which scoring faults gets exactly the neutral DealScore
\* (overall 50, confidence 0.1, the six factors 50, 'fair'), and every other
\* listing of the batch gets what scoreDeal gives for it alone.
C13_DealFaultContained ==
    "scoreBatchDeals" \in s_done =>
      /\ Len(s_deals) = Len(items)
      /\ \A k \in 1..Len(items) :
           IF items[k].dealFault
             THEN s_deals[k] =
                    [overallScore |-> 5000, confidence |-> 10,
                     factors |-> [priceScore |-> 5000, sellerScore |-> 5000,
                                  shippingScore |-> 5000, conditionScore |-> 5000,
                                  titleScore |-> 5000, freshnessScore |-> 5000],
                     recommendation |-> "fair"]
             ELSE s_deals[k] = scoreDeal(items[k])

C13_Witness ==
    /\ "scoreBatchDeals" \in s_done
    /\ Len(items) = 3
    /\ items[2].dealFault
    /\ s_deals[1] # NeutralDealScore
    /\ s_deals[3] # NeutralDealScore
    /\ s_deals[1] # s_deals[3]

\* the recommendation the thresholds 80 / 65 / 40 give for an overall score
\* in hundredths
RecommendationOf(overallScore) ==
    IF overallScore >= 8000 THEN "excellent"
    ELSE IF overallScore >= 6500 THEN "good"
    ELSE IF overallScore >= 4000 THEN "fair"
    ELSE "poor"

\* C14: every DealScore returned has its overallScore within [0, 100] and
\* its recommendation is the one the thresholds give for the overallScore
\* it returns (the value rounded to 2 decimals).
C14_RecommendationFromReturned ==
    "scoreBatchDeals" \in s_done =>
      \A k \in 1..Len(s_deals) :
        /\ s_deals[k].overallScore \in 0..10000
        /\ s_deals[k].recommendation = RecommendationOf(s_deals[k].overallScore)

---------------------------------------------------------------------------
(* Properties of the preference scorer *)

\* C15: the list rankItems returns holds no listing whose price exceeds the
\* maximum price supplied and no listing whose seller feedback percentage is
\* below the minimum rating supplied.
C15_CriteriaFiltered ==
    "rankItems" \in s_done =>
      \A j \in 1..Len(s_ranked) :
        LET item == s_ranked[j].item
        IN  /\ Truthy(prefs.maxPrice) => item.price <= prefs.maxPrice
            /\ prefs.minimumSellerRating # 0
                 => item.feedbackPercentage >= prefs.minimumSellerRating

---------------------------------------------------------------------------
(* Properties of the explanation *)

\* C16: the explanation of every item returned by a call without a query
\* has no semantic reason; a semantic reason is present only when a query
\* was supplied.
C16_SemanticReasonOmitted ==
    (Returned /\ query = <<>>) =>
      \A j \in 1..Len(r_result) : r_result[j].explanation.semanticReason = NoReason

---------------------------------------------------------------------------
(* Properties of the call's remote requests *)

\* remote embedding requests of the call that have not settled
Outstanding ==
    (IF e_pc = "await" THEN 1 ELSE 0) + (IF b_pc = "await" THEN 1 ELSE 0)

\* C17: at most one embedding request of the call is outstanding; the batch
\* call begins only after the query chain, retries included, has resolved;
\* the group at offset i is submitted only after every group before it has
\* settled or been skipped, in order; nothing is outstanding once the call
\* has returned.
C17_RequestsSequential ==
    /\ Outstanding <= 1
    /\ b_pc # "idle" => e_pc = "ret" /\ e_result # NoEmb
    /\ e_pc \in {"call", "await", "sleep"} => b_pc = "idle" /\ b_log = <<>>
    /\ \A g \in 1..Len(b_log) : b_log[g].at = (g - 1) * BatchSize
    /\ b_pc = "await" => Len(b_log) * BatchSize = b_i
    /\ b_pc = "pause" => Len(b_log) * BatchSize = b_i + BatchSize
    /\ Returned => e_pc \in {"idle", "ret"} /\ b_pc \in {"idle", "ret"}

C17_Witness ==
    /\ b_pc = "await"
    /\ b_i = BatchSize
    /\ Len(b_log) = 1
    /\ b_log[1].kind = "throw"
    /\ e_retry = 2
    /\ e_attempts = 3

---------------------------------------------------------------------------
(* Properties of the market-average table *)

\* the table after the whole of one update: every entry of the update set
WholeUpdate(averages, update) ==
    [c \in DOMAIN averages \cup DOMAIN update |->
       IF c \in DOMAIN update THEN update[c] ELSE averages[c]]

\* the table after the first n updates applied, each as a whole
RECURSIVE TableAfter(_)
TableAfter(n) ==
    IF n = 0 THEN InitialAverages ELSE WholeUpdate(TableAfter(n - 1), m_applied[n])

\* C18: at every point where a ranking call can run or resume, the table is
\* the result of whole updates only, and all the deal scores of a returned
\* call were computed against one such table, the one in place when its
\* scoring pass ran.
C18_TableSwappedWhole ==
    /\ marketAverages = TableAfter(Len(m_applied))
    /\ Returned =>
         /\ r_passAt \in 0..Len(m_applied)
         /\ \A j \in 1..Len(r_result) :
              r_result[j].dealScore = scoreDealOn(TableAfter(r_passAt), r_result[j].item)

C18_Witness ==
    /\ Returned
    /\ r_path = "main"
    /\ r_passAt = 1
    /\ Len(m_applied) = 2
    /\ DOMAIN m_applied[1] = {"general", "electronics"}
    /\ e_attempts > 0
    /\ Len(r_result) = 2
    /\ \A j \in 1..2 :
         r_result[j].dealScore # scoreDealOn(InitialAverages, r_result[j].item)

---------------------------------------------------------------------------
(* Termination of rankItemsWithAI *)

\* C19: when every remote call settles and every ready continuation runs,
\* the call returns, whatever the outcomes of the query request, of its
\* retries and of the group requests.
C19_EventuallyReturns == <>Returned

\* returned after the query request failed retryably until the retries ran out
C19_Witness ==
    /\ Returned
    /\ e_retry = MaxRetries
    /\ e_attempts = MaxRetries + 1
    /\ Len(e_delays) = MaxRetries
    /\ e_result = NoEmb
    /\ Len(items) = 2
    /\ Len(r_result) = 2

---------------------------------------------------------------------------
(* Properties of the preference sub-scores *)

SubScoreNames ==
    {"priceScore", "conditionScore", "sellerScore", "shippingScore", "keywordScore"}

\* 0.25*price + 0.15*condition + 0.20*seller + 0.15*shipping + 0.25*keyword,
\* in ten-thousandths
WeightedSum(f) ==
    25 * f.priceScore + 15 * f.conditionScore + 20 * f.sellerScore
      + 15 * f.shippingScore + 25 * f.keywordScore

\* C20: every sub-score of a scored listing lies in [0,100], is the neutral
\* 50 when its preference field is absent, and the composite is the
\* weighted sum with weights 0.25/0.15/0.20/0.15/0.25 rounded to the nearest
\* hundredth.
C20_SubScoresAndComposite ==
    \A k \in 1..Len(s_ranked) :
      LET f == s_ranked[k].rankingFactors
          composite == s_ranked[k].relevanceScore
      IN  /\ \A name \in SubScoreNames : f[name] \in 0..10000
          /\ prefs.maxPrice = NullScore => f.priceScore = 5000
          /\ prefs.preferredCondition = <<>> => f.conditionScore = 5000
          /\ prefs.minimumSellerRating = 0 => f.sellerScore = 5000
          /\ ~prefs.freeShippingOnly => f.shippingScore = 5000
          /\ prefs.keywords = <<>> => f.keywordScore = 5000
          /\ 100 * composite - 50 <= WeightedSum(f)
          /\ WeightedSum(f) < 100 * composite + 50

\* three listings scored under preferences with every field present: one
\* over budget, one whose seller bonus is capped, one whose weighted sum
\* falls halfway between two hundredths
C20_Witness ==
    /\ "rankItems" \in s_done
    /\ Len(s_ranked) = 3
    /\ Truthy(prefs.maxPrice) /\ prefs.preferredCondition # <<>> /\ prefs.keywords # <<>>
    /\ prefs.minimumSellerRating # 0 /\ prefs.freeShippingOnly
    /\ \E k \in 1..3 : s_ranked[k].rankingFactors.priceScore = 0
    /\ \E k \in 1..3 : s_ranked[k].rankingFactors.sellerScore = 10000
    /\ \E k \in 1..3 : WeightedSum(s_ranked[k].rankingFactors) % 100 = 50
    /\ \E k \in 1..3 : s_ranked[k].rankingFactors.keywordScore \notin {0, 10000}

---------------------------------------------------------------------------
(* Properties of the single sub-scores *)

\* C21: under a supplied max price, 0 included, the price sub-score does not
\* increase with the listing price and is 0 for every listing priced above
\* the max price.
C21_PriceScoreMonotone ==
    prefs.maxPrice # NullScore =>
      \A j, k \in 1..Len(s_ranked) :
        LET a == s_ranked[j]
            b == s_ranked[k]
        IN  /\ a.item.price <= b.item.price
                 => a.rankingFactors.priceScore >= b.rankingFactors.priceScore
            /\ a.item.price > prefs.maxPrice => a.rankingFactors.priceScore = 0

---------------------------------------------------------------------------
(* Properties of the cosine similarity *)

ZeroVector(v) == \A k \in 1..Len(v) : v[k] = 0

\* C24: the call throws exactly when the dimensions differ; otherwise it
\* returns 0 when one of the vectors has norm zero, and 1 for a vector that
\* is not zero compared with itself.
C24_CosineContract ==
    c_out # NoOutcome =>
      /\ c_out.kind = "throw" <=> Len(c_a) # Len(c_b)
      /\ Len(c_a) = Len(c_b) /\ (ZeroVector(c_a) \/ ZeroVector(c_b)) => c_out = Returns(0)
      /\ c_a = c_b /\ ~ZeroVector(c_a) => c_out = Returns(1000)

C24_Witness ==
    /\ c_out = Returns(1000)
    /\ c_a = c_b
    /\ Len(c_a) = 3
    /\ \E k \in 1..3 : c_a[k] < 0

\* the words of a condition string, in capitals
WordsOf(c) ==
    CASE c \in {"New", "new", "NEW"} -> <<"NEW">>
      [] c \in {"Used", "used", "USED"} -> <<"USED">>
      [] c = "Like New" -> <<"LIKE", "NEW">>
      [] c = "For parts" -> <<"FOR", "PARTS">>
      [] c = "For parts or not working" -> <<"FOR", "PARTS", "OR", "NOT", "WORKING">>
      [] c = "Used - Good" -> <<"USED", "-", "GOOD">>

HasWord(c, w) == \E k \in 1..Len(WordsOf(c)) : WordsOf(c)[k] = w

\* the condition sub-score the rule gives
ConditionRule(condition, preferred) ==
    IF preferred = <<>> THEN 5000
    ELSE IF \E k \in 1..Len(preferred) : WordsOf(preferred[k]) = WordsOf(condition) THEN 10000
    ELSE IF HasWord(condition, "NEW") /\ \E k \in 1..Len(preferred) : HasWord(preferred[k], "NEW")
      THEN 8000
    ELSE IF HasWord(condition, "USED") /\ \E k \in 1..Len(preferred) : HasWord(preferred[k], "USED")
      THEN 6000
    ELSE 2000

\* C25: the condition sub-score is 50 without preferred conditions, else 100
\* on a match ignoring case, else 80 when the listing's condition and a
\* preferred entry both contain NEW, else 60 when both contain USED, else
\* 20; a listing in condition New under the preferred list ["USED"] gets 20.
C25_ConditionScore ==
    \A k \in 1..Len(s_ranked) :
      LET x == s_ranked[k]
      IN  /\ x.rankingFactors.conditionScore
               = ConditionRule(x.item.condition, prefs.preferredCondition)
          /\ x.item.condition = "New" /\ prefs.preferredCondition = <<"USED">>
               => x.rankingFactors.conditionScore = 2000

\* one call under a preferred entry that no listing's condition equals:
\* 60 for the listings whose condition contains USED, 20 for the others
C25_Witness ==
    /\ "rankItems" \in s_done
    /\ prefs.preferredCondition = <<"Used - Good">>
    /\ Len(s_ranked) = 3
    /\ {s_ranked[k].rankingFactors.conditionScore : k \in 1..3} = {6000, 2000}

---------------------------------------------------------------------------
(* Properties of the degraded path *)

\* C26: when the call returns what fallbackToTraditional produced, every
\* item's final score is 0.35*50 + 0.35*dealQuality + 0.30*traditionalRelevance
\* (here in ten-thousandths, to the nearest hundredth), in keeping with the
\* semanticSimilarity 50 it reports.
C26_FallbackFusion ==
    Returned /\ r_path = "fallback" =>
      \A j \in 1..Len(r_result) :
        LET x == r_result[j]
            fusion == 35 * 5000 + 35 * x.dealQuality + 30 * x.traditionalRelevance
        IN  /\ x.semanticSimilarity = 5000
            /\ x.finalScore - fusion < 50
            /\ fusion - x.finalScore <= 50

---------------------------------------------------------------------------
(* Properties of the deal score's range *)

\* C27: the linear score of every listing scored without a fault lies in
\* [-0.24, 1.12] and its overall score strictly between 40 and 80; every
\* recommendation returned is 'good' or 'fair'.
C27_DealScoreRange ==
    \A k \in 1..Len(s_deals) :
      /\ s_deals[k].recommendation \in {"good", "fair"}
      /\ ~items[k].dealFault =>
           LET score == LinearScore(extractFeatures(marketAverages, items[k]))
           IN  /\ 0 - 240000 <= score /\ score <= 1120000
               /\ 4000 < s_deals[k].overallScore /\ s_deals[k].overallScore < 8000

\* the two ends scored in one call: below 45 and above 75
C27_Witness ==
    /\ "scoreBatchDeals" \in s_done
    /\ items = <<WorstDeal, BestDeal>>
    /\ s_deals[1].overallScore < 4500 /\ s_deals[1].recommendation = "fair"
    /\ s_deals[2].overallScore > 7500 /\ s_deals[2].recommendation = "good"

\* C28: a deal score computed without a fault has a confidence in
\* [0.35, 0.95], the value before the clamp; a confidence of 0.1 is returned
\* only by the fault fallback.
C28_ConfidenceRange ==
    \A k \in 1..Len(s_deals) :
      LET features == extractFeatures(marketAverages, items[k])
          boost == features.sellerRating > 950000
          penalty == features.sellerRating < 900000
          unclamped == 50 + (IF boost THEN 20 ELSE 0) - (IF penalty THEN 15 ELSE 0)
                       + (IF Abs(features.priceVsAverage) > 300000 THEN 15 ELSE 0)
                       + (IF features.titleQualityScore > 800000 THEN 10 ELSE 0)
      IN  /\ ~items[k].dealFault =>
               /\ ~(boost /\ penalty)
               /\ s_deals[k].confidence = unclamped
               /\ 35 <= s_deals[k].confidence /\ s_deals[k].confidence <= 95
          /\ s_deals[k].confidence = 10 => items[k].dealFault

\* one call that returned the least and the greatest confidence and the
\* fallback's
C28_Witness ==
    /\ "scoreBatchDeals" \in s_done
    /\ Len(s_deals) = 3
    /\ s_deals[1].confidence = 35
    /\ s_deals[2].confidence = 95
    /\ s_deals[3].confidence = 10 /\ items[3].dealFault

---------------------------------------------------------------------------
(* Properties of the remote calls of generateBatchEmbeddings *)

\* the requests issued for the group at offset i: the settled ones and the
\* pending one
GroupCalls(i) ==
    Cardinality({g \in 1..Len(b_log) : b_log[g].at = i /\ b_log[g].kind # "empty"})
      + (IF b_pc = "await" /\ b_i = i THEN 1 ELSE 0)

BatchCalls ==
    Cardinality({g \in 1..Len(b_log) : b_log[g].kind # "empty"})
      + (IF b_pc = "await" THEN 1 ELSE 0)

\* C29: every group gets at most one remote call, a failed group included,
\* so n texts cause at most ceil(n/16) calls; a group whose texts are all
\* empty after preprocessing gets none.
C29_OneCallPerGroup ==
    /\ BatchCalls <= GroupCount(Len(b_texts))
    /\ \A g \in 0..GroupCount(Len(b_texts)) :
         /\ GroupCalls(g * BatchSize) <= 1
         /\ Len(CleanBatch(Slice(b_texts, g * BatchSize))) = 0
              => GroupCalls(g * BatchSize) = 0
    /\ \A g \in 1..Len(b_log) :
         b_log[g].kind = "throw" =>
           /\ b_i # b_log[g].at \/ b_pc # "await"
           /\ \A h \in 1..Len(b_log) : h # g => b_log[h].at # b_log[g].at

\* three groups: the first was all empty, the second failed, the third
\* succeeded; two calls
C29_Witness ==
    /\ b_pc = "ret"
    /\ Len(b_log) = 3
    /\ b_log[1].kind = "empty"
    /\ b_log[2].kind = "throw"
    /\ b_log[3].kind = "data"
    /\ BatchCalls = 2

---------------------------------------------------------------------------
(* Properties of a ranking call without a query embedding *)

\* generateEmbedding(userQuery) has resolved to null
QueryEmbeddingUnavailable == e_pc = "ret" /\ e_result = NoEmb

\* C30: when the query embedding is unavailable (the query is empty after
\* preprocessing, or its request failed for good), no item embedding is
\* requested afterwards: generateBatchEmbeddings is never entered and the only
\* remote calls of the ranking call are the attempts for the query. Every item
\* is then combined with the neutral semantic value 50 (the main pipeline
\* fuses 0.35 * 50 + 0.35 * deal + 0.30 * preference).
C30_NoQueryEmbeddingNeutral ==
    QueryEmbeddingUnavailable =>
      /\ b_pc = "idle"
      /\ b_texts = <<>>
      /\ b_log = <<>>
      /\ r_pc # "awaitBatch"
      /\ RemoteCalls = e_attempts
      /\ Returned =>
           /\ r_queryEmb = NoEmb
           /\ CoversInput
           /\ \A j \in 1..Len(r_result) :
                LET x == r_result[j]
                IN  /\ x.semanticScore = NullScore
                    /\ x.semComputed = NullScore
                    /\ x.semanticSimilarity = 5000
                    /\ r_path = "main"
                         => x.finalScore = Fused(5000, x.dealQuality, x.traditionalRelevance)

\* returned by the main pipeline after the one request for the query failed
\* with an error that is not retried
C30_Witness ==
    /\ Returned
    /\ r_path = "main"
    /\ r_avail = "true"
    /\ QueryEmbeddingUnavailable
    /\ e_attempts = 1
    /\ e_lastErr # NoErr
    /\ ~isRetryableError(e_lastErr)
    /\ Len(r_result) = 2
    /\ r_result[1].finalScore > r_result[2].finalScore

---------------------------------------------------------------------------
(* Properties of POST /api/search *)

Responded == p_pc = "done"

\* C22: a failure of a collaborator is answered with its own status: 401
\* when the authentication with the eBay API failed, 429 when the eBay API's
\* rate limit was hit, and 500 for every other failure.
C22_StatusByFailure ==
    (Responded /\ p_failure # "none") =>
      p_response.status = CASE p_failure = "auth" -> 401
                            [] p_failure = "rate" -> 429
                            [] OTHER -> 500

\* C23: a successful response holds at most 50 items, the first 50 of the
\* ranked list in its order, and its total is the number of items it holds,
\* not the number fetched; when the listing source returned no item the
\* response is the empty list with total 0 and no ranking was run.
C23_TopItemsAndTotal ==
    (Responded /\ p_response.status = 200) =>
      IF p_fetched = <<>>
        THEN /\ p_response.items = <<>>
             /\ p_response.total = 0
             /\ r_pc = "idle" /\ r_result = <<>>
             /\ s_done = {}
             /\ p_ranked = <<>>
             /\ e_pc = "idle" /\ b_pc = "idle"
        ELSE /\ p_ranked = IF p_request.useAIRanking THEN r_result
                           ELSE rankItems(p_fetched, p_request.userPreferences)
             /\ Len(p_response.items) = Min(TopLimit, Len(p_ranked))
             /\ Len(p_response.items) <= 50
             /\ \A k \in 1..Len(p_response.items) : p_response.items[k] = p_ranked[k]
             /\ p_response.total = Len(p_response.items)
             /\ p_response.originalTotal = Len(p_fetched)

\* 55 listings fetched and ranked with embeddings, 50 of them returned
C23_Witness ==
    /\ Responded
    /\ p_response.status = 200
    /\ p_request.useAIRanking
    /\ r_path = "main"
    /\ \E k \in 1..Len(r_result) : r_result[k].semComputed # NullScore
    /\ Len(p_fetched) = TopLimit + 5
    /\ Len(p_ranked) = TopLimit + 5
    /\ p_response.total = 50
    /\ p_response.items[50] = p_ranked[50]
    /\ p_response.items[1].finalScore > p_response.items[50].finalScore

=============================================================================
